---- MODULE Spec2Model ----
(***************************************************************************)
(* Position lifecycle, retrying exchange caller and signal combiner of the *)
(* Kraken scalping bot (KrakenService, scalpPair, combineSignals).         *)
(*                                                                         *)
(* Several specifications share this module:                               *)
(*   SpecRetry    one invocation of KrakenService.apiWithRetry;            *)
(*   SpecCombine  combineSignals applied to the signals the two generators *)
(*                can return;                                              *)
(*   SpecSignals  RSIStrategy.getSignal and MACDStrategy.getSignal applied *)
(*                to indicator series;                                     *)
(*   SpecRisk     the RiskManager called directly;                         *)
(*   SpecSizing   RiskManager.calculatePositionSize applied to numbers;    *)
(*   Spec         the position ledger with the trading loop, the position  *)
(*                monitoring timer and the shutdown handler interleaved at *)
(*                their awaits;                                            *)
(*   SpecPairs    the trading loop over a wider list of tradeable pairs;   *)
(*   SpecPrices   the trading loop over one pair followed at two prices;   *)
(*   SpecMonitor  the loop and the monitoring timer under fair scheduling; *)
(*   SpecFaults   the loop and the timer with the faults that end the      *)
(*                process;                                                 *)
(*   SpecIndicators  the one-pair loop with decisions that end for want of *)
(*                candles or of an indicator.                              *)
(* Text is modelled as a sequence of tokens, so that String.includes is a  *)
(* contiguous-subsequence test.  Numbers are fixed point: prices, balances *)
(* and trade amounts in tenths of the quote currency, volumes in units of  *)
(* 1e-8 of the base asset, percentages in tenths of a percent, profits in  *)
(* millionths of the quote currency.                                       *)
(***************************************************************************)
EXTENDS Integers, Sequences, FiniteSets, TLC

VARIABLES
  rpc,         \* apiWithRetry: where the invocation stands
  attempt,     \* apiWithRetry: the loop variable `attempt`
  lastError,   \* apiWithRetry: the local `lastError`
  events,      \* apiWithRetry: gateway calls made and delays waited, in order
  cArgs,       \* combineSignals: the arguments of the application
  cResult,     \* combineSignals: the value returned
  constants,   \* what require('../config/constants') evaluates to
  tradeablePairs, \* main: the symbols findTradeablePairs returns to the loop
  fault,       \* the top-level fault that ended the process, "none" so far
  positions,   \* KrakenService.positions, a Map in insertion order
  clock,       \* number of positions opened so far (orders the timestamps)
  trades,      \* performanceTracker.stats: the trade counters
  risk,        \* riskManager: dailyPnL, lastResetDay, tradingEnabled
  today,       \* the calendar day new Date().toDateString() returns
  running,     \* the callback the event loop is executing, if it is mid-way
  loop,        \* main's trading loop: the scalpPair invocation in progress
  ticks,       \* invocations of the position-check interval callback
  shutdown,    \* the SIGINT handler
  exited,      \* process.exit was called
  gate,        \* riskManager called directly: calls made, last canOpenPosition answer
  sArgs,       \* getSignal: the strategy, its indicator input and the position
  sResult,     \* getSignal: the signal returned
  sRsi,        \* scalpPair: rsiValues, what calculateRSI returned
  zArgs,       \* calculatePositionSize: the arguments of the application
  zResult      \* calculatePositionSize: the value returned

retryVars == <<rpc, attempt, lastError, events>>
combineVars == <<cArgs, cResult>>
lifecycleVars ==
  <<constants, tradeablePairs, fault, positions, clock, trades, risk, today, running,
    loop, ticks, shutdown, exited>>
gateVars == <<gate>>
signalVars == <<sArgs, sResult, sRsi>>
sizingVars == <<zArgs, zResult>>
standaloneVars == <<gateVars, signalVars, sizingVars>>
vars ==
  <<rpc, attempt, lastError, events, cArgs, cResult, constants, positions,
    clock, trades, risk, today, running, loop, ticks, shutdown, exited, gate,
    tradeablePairs, fault, sArgs, sResult, sRsi, zArgs, zResult>>

\* JavaScript null / undefined where an object is expected.
Null == [null |-> TRUE]

(***************************************************************************)
(* Text as token sequences.                                                *)
(***************************************************************************)

\* String.prototype.includes: needle occurs in text as a contiguous run.
Includes(text, needle) ==
  \E i \in 0..(Len(text) - Len(needle)) :
    \A j \in 1..Len(needle) : text[i + j] = needle[j]

(***************************************************************************)
(* KrakenService.apiWithRetry                                              *)
(***************************************************************************)

MAX_RETRIES == 3
RETRY_DELAY == 2000

\* Messages of the errors the gateway raises (kraken-api joins the exchange's
\* error strings; transport failures carry the HTTP client's message).
MsgTimeout == <<"timeout">>
MsgRateLimit == <<"API", "Rate", "limit", "exceeded">>
MsgPermissionDenied == <<"General", "Permission", "denied">>
MsgInvalidSignature == <<"API", "Invalid", "signature">>
MsgInvalidKey == <<"API", "Invalid", "key">>
MsgInvalidNonce == <<"API", "Invalid", "nonce">>
MsgInvalidArguments == <<"General", "Invalid", "arguments">>

ErrorMessages ==
  { MsgTimeout, MsgRateLimit, MsgPermissionDenied, MsgInvalidSignature,
    MsgInvalidKey, MsgInvalidNonce, MsgInvalidArguments }

NoError == <<>>
Ok == <<"ok">>

IsNonRetryableDropsNonce(message) ==
  \/ Includes(message, <<"Invalid", "key">>)
  \/ Includes(message, <<"Invalid", "arguments">>)

\* "Don't retry if it's an authentication or parameter error"
IsNonRetryable(message) ==
  \/ Includes(message, <<"Invalid", "key">>)
  \/ Includes(message, <<"Invalid", "nonce">>)
  \/ Includes(message, <<"Invalid", "arguments">>)

ShouldWaitAfterEveryFailure(n) == n <= MAX_RETRIES

\* "Wait before retrying": if (attempt < MAX_RETRIES)
ShouldWait(n) == n < MAX_RETRIES

CallEvent(n, outcome) == [type |-> "call", attempt |-> n, outcome |-> outcome, ms |-> 0]
WaitEvent(n, ms) == [type |-> "wait", attempt |-> n, outcome |-> NoError, ms |-> ms]

RetryInit ==
  /\ rpc = "idle"
  /\ attempt = 0
  /\ lastError = NoError
  /\ events = <<>>

\* apiWithRetry(method, params) is entered: attempt = 1 and the first gateway
\* call is in flight.
ApiWithRetry ==
  /\ rpc = "idle"
  /\ rpc' = "calling"
  /\ attempt' = 1
  /\ lastError' = NoError
  /\ events' = <<>>
  /\ UNCHANGED <<combineVars, lifecycleVars, standaloneVars>>

\* await this.kraken.api(method, params) resolves: return result.
GatewayReturns ==
  /\ rpc = "calling"
  /\ events' = Append(events, CallEvent(attempt, Ok))
  /\ rpc' = "returned"
  /\ UNCHANGED <<attempt, lastError>>
  /\ UNCHANGED <<combineVars, lifecycleVars, standaloneVars>>

\* await this.kraken.api(method, params) rejects with `message`: the catch
\* block, up to the next suspension point or the final throw.
GatewayThrows(message) ==
  /\ rpc = "calling"
  /\ events' = Append(events, CallEvent(attempt, message))
  /\ lastError' = message
  /\ IF IsNonRetryable(message)
       THEN /\ rpc' = "thrown"                   \* break; throw lastError
            /\ attempt' = attempt
       ELSE IF ShouldWait(attempt)
         THEN /\ rpc' = "waiting"                \* await setTimeout(RETRY_DELAY)
              /\ attempt' = attempt
         ELSE IF attempt + 1 <= MAX_RETRIES
           THEN /\ rpc' = "calling"              \* attempt++ without a wait
                /\ attempt' = attempt + 1
           ELSE /\ rpc' = "thrown"               \* loop ends; throw lastError
                /\ attempt' = attempt + 1
  /\ UNCHANGED <<combineVars, lifecycleVars, standaloneVars>>

\* The RETRY_DELAY timer fires: attempt++ and the next gateway call starts.
RetryTimerFires ==
  /\ rpc = "waiting"
  /\ events' = Append(events, WaitEvent(attempt, RETRY_DELAY))
  /\ IF attempt + 1 <= MAX_RETRIES
       THEN /\ rpc' = "calling"
            /\ attempt' = attempt + 1
       ELSE /\ rpc' = "thrown"
            /\ attempt' = attempt + 1
  /\ UNCHANGED lastError
  /\ UNCHANGED <<combineVars, lifecycleVars, standaloneVars>>

RetryNext ==
  \/ ApiWithRetry
  \/ GatewayReturns
  \/ \E message \in ErrorMessages : GatewayThrows(message)
  \/ RetryTimerFires

(***************************************************************************)
(* Signals of the two generators and combineSignals                        *)
(***************************************************************************)

Signal(action, reason) == [action |-> action, reason |-> reason]

\* What RSIStrategy.getSignal can return, by its return statements (the
\* numbers interpolated into the reason text are left out).
RsiInsufficientData == Signal("wait", <<"INSUFFICIENT", "DATA">>)
RsiExitStrongOverbought == Signal("exit", <<"STRONG", "OVERBOUGHT">>)
RsiExitOverbought == Signal("exit", <<"OVERBOUGHT">>)
RsiExitStrongOversold == Signal("exit", <<"STRONG", "OVERSOLD">>)
RsiExitOversold == Signal("exit", <<"OVERSOLD">>)
RsiHolding == Signal("wait", <<"HOLDING", "POSITION">>)
RsiBuyExtremeOversold == Signal("buy", <<"EXTREME", "OVERSOLD">>)
RsiBuyCrossingOversold == Signal("buy", <<"CROSSING", "OVERSOLD">>)
RsiSellExtremeOverbought == Signal("sell", <<"EXTREME", "OVERBOUGHT">>)
RsiSellCrossingOverbought == Signal("sell", <<"CROSSING", "OVERBOUGHT">>)
RsiNeutral == Signal("wait", <<"NEUTRAL", "RSI">>)

RsiSignals(position) ==
  IF position # Null
    THEN {RsiInsufficientData, RsiHolding} \cup
         (IF position.side = "buy"
            THEN {RsiExitStrongOverbought, RsiExitOverbought}
            ELSE IF position.side = "sell"
              THEN {RsiExitStrongOversold, RsiExitOversold}
              ELSE {})
    ELSE {RsiInsufficientData, RsiBuyExtremeOversold, RsiBuyCrossingOversold,
          RsiSellExtremeOverbought, RsiSellCrossingOverbought, RsiNeutral}

\* What MACDStrategy.getSignal can return, by its return statements.
MacdInsufficientData == Signal("wait", <<"INSUFFICIENT", "DATA">>)
MacdExitBearishCross == Signal("exit", <<"MACD", "BEARISH", "CROSS">>)
MacdExitBullishCross == Signal("exit", <<"MACD", "BULLISH", "CROSS">>)
MacdHolding == Signal("wait", <<"HOLDING", "POSITION">>)
MacdBuyBelowZero == Signal("buy", <<"MACD", "BULLISH", "CROSS", "BELOW", "ZERO">>)
MacdBuyAboveZero == Signal("buy", <<"MACD", "BULLISH", "CROSS", "ABOVE", "ZERO">>)
MacdSellAboveZero == Signal("sell", <<"MACD", "BEARISH", "CROSS", "ABOVE", "ZERO">>)
MacdSellBelowZero == Signal("sell", <<"MACD", "BEARISH", "CROSS", "BELOW", "ZERO">>)
MacdNeutral == Signal("wait", <<"NEUTRAL", "MACD">>)

MacdSignals(position) ==
  IF position # Null
    THEN {MacdInsufficientData, MacdHolding} \cup
         (IF position.side = "buy"
            THEN {MacdExitBearishCross}
            ELSE IF position.side = "sell"
              THEN {MacdExitBullishCross}
              ELSE {})
    ELSE {MacdInsufficientData, MacdBuyBelowZero, MacdBuyAboveZero,
          MacdSellAboveZero, MacdSellBelowZero, MacdNeutral}

\* marketConditions.marketCondition as analyzeMarketConditions sets it, and the
\* sign of marketConditions.priceTrend.
MarketConditionNames == {"neutral", "trending", "ranging", "volatile"}
PriceTrendSigns == {-1, 0, 1}

MarketConditions(condition, trend) == [marketCondition |-> condition, priceTrend |-> trend]

\* combineSignals with the volatile-market rule applied only when both
\* generators say buy.
combineSignalsVolatileNeedsBoth(rsiSignal, macdSignal, marketConditions, position) ==
  IF position # Null
    THEN IF rsiSignal.action = "exit" \/ macdSignal.action = "exit"
           THEN (IF rsiSignal.action = "exit" THEN rsiSignal ELSE macdSignal)
           ELSE Signal("wait", <<"HOLDING", "POSITION">>)
  ELSE IF rsiSignal.action = macdSignal.action /\ rsiSignal.action # "wait"
    THEN Signal(rsiSignal.action,
                <<"CONSENSUS">> \o rsiSignal.reason \o <<"&">> \o macdSignal.reason)
  ELSE IF Includes(rsiSignal.reason, <<"EXTREME">>)
    THEN rsiSignal
  ELSE IF /\ marketConditions.marketCondition = "volatile"
          /\ (rsiSignal.action = "buy" /\ macdSignal.action = "buy")
    THEN Signal("wait", <<"VOLATILE", "MARKET", "CAUTION">>)
  ELSE IF /\ marketConditions.marketCondition = "trending"
          /\ marketConditions.priceTrend > 0
          /\ (rsiSignal.action = "buy" \/ macdSignal.action = "buy")
    THEN Signal("buy", <<"TREND", "FOLLOWING">> \o
                (IF rsiSignal.action = "buy" THEN rsiSignal.reason ELSE macdSignal.reason))
  ELSE IF /\ marketConditions.marketCondition = "trending"
          /\ marketConditions.priceTrend < 0
          /\ (rsiSignal.action = "sell" \/ macdSignal.action = "sell")
    THEN Signal("sell", <<"TREND", "FOLLOWING">> \o
                (IF rsiSignal.action = "sell" THEN rsiSignal.reason ELSE macdSignal.reason))
  ELSE Signal("wait", <<"NO", "STRONG", "SIGNAL">>)

combineSignals(rsiSignal, macdSignal, marketConditions, position) ==
  IF position # Null
    THEN IF rsiSignal.action = "exit" \/ macdSignal.action = "exit"
           THEN (IF rsiSignal.action = "exit" THEN rsiSignal ELSE macdSignal)
           ELSE Signal("wait", <<"HOLDING", "POSITION">>)
  ELSE IF rsiSignal.action = macdSignal.action /\ rsiSignal.action # "wait"
    THEN Signal(rsiSignal.action,
                <<"CONSENSUS">> \o rsiSignal.reason \o <<"&">> \o macdSignal.reason)
  ELSE IF Includes(rsiSignal.reason, <<"EXTREME">>)
    THEN rsiSignal
  ELSE IF /\ marketConditions.marketCondition = "volatile"
          /\ (rsiSignal.action = "buy" \/ macdSignal.action = "buy")
    THEN IF rsiSignal.action = "buy" /\ macdSignal.action = "buy"
           THEN Signal("buy", <<"VOLATILE", "CONSENSUS">> \o rsiSignal.reason
                              \o <<"&">> \o macdSignal.reason)
           ELSE Signal("wait", <<"VOLATILE", "MARKET", "CAUTION">>)
  ELSE IF /\ marketConditions.marketCondition = "trending"
          /\ marketConditions.priceTrend > 0
          /\ (rsiSignal.action = "buy" \/ macdSignal.action = "buy")
    THEN Signal("buy", <<"TREND", "FOLLOWING">> \o
                (IF rsiSignal.action = "buy" THEN rsiSignal.reason ELSE macdSignal.reason))
  ELSE IF /\ marketConditions.marketCondition = "trending"
          /\ marketConditions.priceTrend < 0
          /\ (rsiSignal.action = "sell" \/ macdSignal.action = "sell")
    THEN Signal("sell", <<"TREND", "FOLLOWING">> \o
                (IF rsiSignal.action = "sell" THEN rsiSignal.reason ELSE macdSignal.reason))
  ELSE Signal("wait", <<"NO", "STRONG", "SIGNAL">>)

\* The positions handed to the generators and the combiner: none, one opened
\* by a buy, one opened by a sell (only `side` is read there).
CombinePositions == {Null, [side |-> "buy"], [side |-> "sell"]}

CombineArgs ==
  UNION { { [rsiSignal |-> r, macdSignal |-> m,
             marketConditions |-> MarketConditions(c, t), position |-> p] :
            r \in RsiSignals(p), m \in MacdSignals(p),
            c \in MarketConditionNames, t \in PriceTrendSigns } :
          p \in CombinePositions }

CombineInit ==
  /\ cArgs \in CombineArgs
  /\ cResult = Null

CombineIdle ==
  /\ cArgs = Null
  /\ cResult = Null

\* finalDecision = combineSignals(rsiSignal, macdSignal, marketConditions, position)
CombineSignals ==
  /\ cArgs # Null
  /\ cResult = Null
  /\ cResult' = combineSignals(cArgs.rsiSignal, cArgs.macdSignal,
                               cArgs.marketConditions, cArgs.position)
  /\ UNCHANGED cArgs
  /\ UNCHANGED <<retryVars, lifecycleVars, standaloneVars>>

CombineNext == CombineSignals

(***************************************************************************)
(* config/constants.js                                                     *)
(***************************************************************************)

\* A property read off an object: present with a value, or undefined.
Undefined == [defined |-> FALSE, value |-> 0]
Defined(v) == [defined |-> TRUE, value |-> v]

TRADE_AMOUNT_USD == 30               \* 3 (despite the name, the GBP amount)
TRADE_AMOUNT_USD_USD == 50           \* 5
STOP_LOSS_PERCENT == 20              \* 2
LEVERAGED_STOP_LOSS_PERCENT == 10    \* 1
TAKE_PROFIT_PERCENT == 10            \* 1
LEVERAGED_TAKE_PROFIT_PERCENT == 5   \* 0.5
MAX_POSITIONS == 3
LEVERAGE == 2

\* The object the exports.X = ... assignments of lines 2-56 fill in.
DeclaredExports ==
  [ TRADE_AMOUNT_USD |-> Defined(TRADE_AMOUNT_USD),
    TRADE_AMOUNT_USD_USD |-> Defined(TRADE_AMOUNT_USD_USD),
    STOP_LOSS_PERCENT |-> Defined(STOP_LOSS_PERCENT),
    LEVERAGED_STOP_LOSS_PERCENT |-> Defined(LEVERAGED_STOP_LOSS_PERCENT),
    TAKE_PROFIT_PERCENT |-> Defined(TAKE_PROFIT_PERCENT),
    LEVERAGED_TAKE_PROFIT_PERCENT |-> Defined(LEVERAGED_TAKE_PROFIT_PERCENT),
    MAX_POSITIONS |-> Defined(MAX_POSITIONS),
    LEVERAGE |-> Defined(LEVERAGE),
    USE_MARGIN |-> Defined(1),              \* true
    getValidLeverage |-> Defined(1) ]       \* a function

\* The object module.exports = { MIN_ORDER_SIZES } of lines 58-60 leaves for
\* require() to return: none of the properties above is on it.
ModuleExports ==
  [ TRADE_AMOUNT_USD |-> Undefined,
    TRADE_AMOUNT_USD_USD |-> Undefined,
    STOP_LOSS_PERCENT |-> Undefined,
    LEVERAGED_STOP_LOSS_PERCENT |-> Undefined,
    TAKE_PROFIT_PERCENT |-> Undefined,
    LEVERAGED_TAKE_PROFIT_PERCENT |-> Undefined,
    MAX_POSITIONS |-> Undefined,
    LEVERAGE |-> Undefined,
    USE_MARGIN |-> Undefined,
    getValidLeverage |-> Undefined ]

\* a >= b in JavaScript where either side may be undefined (NaN after
\* conversion): false then.
JsAtLeast(a, b) == a.defined /\ b.defined /\ a.value >= b.value

\* if (x): undefined and 0 are falsy.
Truthy(x) == x.defined /\ x.value # 0

\* constants.getValidLeverage() can be called (else a TypeError is raised).
CanGetValidLeverage == constants.getValidLeverage.defined

\* isNaN(exports.LEVERAGE) ? 1 : exports.LEVERAGE
getValidLeverage ==
  IF constants.LEVERAGE.defined THEN constants.LEVERAGE.value ELSE 1

(***************************************************************************)
(* KrakenService.positions: a Map, as the sequence of its entries          *)
(***************************************************************************)

Symbols == { <<"XBT", "GBP">>, <<"ETH", "USD">> }

\* A wider market: four symbols, one more than MAX_POSITIONS.
WideSymbols == Symbols \cup { <<"SOL", "GBP">>, <<"ADA", "USD">> }

\* A market of one tradeable pair, quoted in dollars and open to margin.
SinglePair == { <<"ETH", "USD">> }

\* symbol.endsWith('GBP') ? 'GBP' : 'USD'
CurrencyOf(symbol) == IF symbol[Len(symbol)] = "GBP" THEN "GBP" ELSE "USD"

\* this.marginPairs after initialize(): the pairs the exchange lists with
\* leverage.
marginPairs == { <<"ETH", "USD">> }

MapHas(map, key) == \E i \in 1..Len(map) : map[i].key = key

MapIndex(map, key) == CHOOSE i \in 1..Len(map) : map[i].key = key

MapGet(map, key) == IF MapHas(map, key) THEN map[MapIndex(map, key)].value ELSE Null

MapSet(map, key, value) ==
  IF MapHas(map, key)
    THEN [map EXCEPT ![MapIndex(map, key)] = [key |-> key, value |-> value]]
    ELSE Append(map, [key |-> key, value |-> value])

MapDelete(map, key) ==
  IF MapHas(map, key)
    THEN LET i == MapIndex(map, key)
         IN  SubSeq(map, 1, i - 1) \o SubSeq(map, i + 1, Len(map))
    ELSE map

MapKeys(map) == [i \in 1..Len(map) |-> map[i].key]

PositionKeyWithSide(symbol, side) == symbol \o <<side>>

\* this.positions.set(symbol, {...}): the key a position is filed under.
PositionKey(symbol, side) == symbol

hasReachedMaxPositionsAbove ==
  constants.MAX_POSITIONS.defined /\ Len(positions) > constants.MAX_POSITIONS.value

\* this.positions.size >= require('../config/constants').MAX_POSITIONS
hasReachedMaxPositions ==
  JsAtLeast(Defined(Len(positions)), constants.MAX_POSITIONS)

getPositionFindsNone(symbol) == Null

\* getPosition(symbol): the position, or null.
getPosition(symbol) == MapGet(positions, symbol)

\* canUseMarginForPair(symbol), with marginPairs loaded.
canUseMarginForPair(symbol) ==
  Truthy(constants.USE_MARGIN) /\ symbol \in marginPairs

(***************************************************************************)
(* Arithmetic of executeTrade, closePosition and checkOpenPositions        *)
(***************************************************************************)

Min(a, b) == IF a < b THEN a ELSE b
Abs(a) == IF a < 0 THEN -a ELSE a

\* (num / den).toFixed(8) as a count of 1e-8, by long division in two steps
\* of four digits, the last digit rounded to nearest.
ToFixed8(num, den) ==
  LET a  == num * 10000
      q1 == a \div den
      r1 == a % den
      b  == r1 * 10000
      q2 == b \div den
      r2 == b % den
  IN  q1 * 10000 + q2 + (IF 2 * r2 >= den THEN 1 ELSE 0)

\* tradeAmount, in hundredths: reducePositionSize ? base * 0.5
\*                                                : Math.min(base, balance * 0.1)
TradeAmount(base, balance, reducePositionSize) ==
  IF reducePositionSize THEN base * 5 ELSE Min(base * 10, balance)

\* parseFloat((tradeAmount / price).toFixed(8))
OrderVolume(base, balance, reducePositionSize, price) ==
  ToFixed8(TradeAmount(base, balance, reducePositionSize), price * 10)

\* The price difference a percentage is taken of.  closePosition asks
\* side === 'long'; checkOpenPositions asks side === 'buy'.
Move(isLong, entryPrice, currentPrice) ==
  IF isLong THEN currentPrice - entryPrice ELSE entryPrice - currentPrice

\* (position.volume * currentPrice) * (pnlPercent / 100), where pnlPercent
\* is move / entryPrice * 100 (0 when that is NaN); truncated to millionths.
ProfitAmount(volume, currentPrice, move, entryPrice) ==
  IF entryPrice = 0 THEN 0
  ELSE LET value == (volume \div 1000) * currentPrice
           magnitude == (value \div entryPrice) * Abs(move)
                          + ((value % entryPrice) * Abs(move)) \div entryPrice
       IN  IF move < 0 THEN -magnitude ELSE magnitude

LeveragedPercentChangeUnscaled(move, leverage) == move

\* leveragedPercentChange = percentChange * leverage (numerator of the
\* fraction over entryPrice).
LeveragedPercentChange(move, leverage) == move * leverage

\* leveragedPercentChange < -stopLossPercent
BelowStopLoss(leveragedMove, entryPrice, stopLossPercent) ==
  stopLossPercent.defined /\ leveragedMove * 1000 < -(stopLossPercent.value * entryPrice)

\* leveragedPercentChange > takeProfitPercent
AboveTakeProfit(leveragedMove, entryPrice, takeProfitPercent) ==
  takeProfitPercent.defined /\ leveragedMove * 1000 > takeProfitPercent.value * entryPrice

\* let closeReason = null
NoReason == <<>>

\* closeReason with the spot thresholds for every position.
CloseReasonAtSpotThresholds(position, currentPrice) ==
  LET leverage == IF position.leverage = 0 THEN 1 ELSE position.leverage
      move == Move(position.side = "buy", position.entryPrice, currentPrice)
      leveragedMove == LeveragedPercentChange(move, leverage)
  IN  IF AboveTakeProfit(leveragedMove, position.entryPrice, constants.TAKE_PROFIT_PERCENT)
        THEN <<"TAKE_PROFIT", "(change > takeProfitPercent)">>
      ELSE IF BelowStopLoss(leveragedMove, position.entryPrice, constants.STOP_LOSS_PERCENT)
        THEN <<"STOP_LOSS", "(change < -stopLossPercent)">>
      ELSE NoReason

\* closeReason of checkOpenPositions for a position at currentPrice: the
\* take-profit test comes second and overrides.
CloseReason(position, currentPrice) ==
  LET leveraged == position.leveraged
      leverage == IF position.leverage = 0 THEN 1 ELSE position.leverage
      move == Move(position.side = "buy", position.entryPrice, currentPrice)
      leveragedMove == LeveragedPercentChange(move, leverage)
      stopLossPercent == IF leveraged THEN constants.LEVERAGED_STOP_LOSS_PERCENT
                                      ELSE constants.STOP_LOSS_PERCENT
      takeProfitPercent == IF leveraged THEN constants.LEVERAGED_TAKE_PROFIT_PERCENT
                                        ELSE constants.TAKE_PROFIT_PERCENT
  IN  IF AboveTakeProfit(leveragedMove, position.entryPrice, takeProfitPercent)
        THEN <<"TAKE_PROFIT", "(change > takeProfitPercent)">>
      ELSE IF BelowStopLoss(leveragedMove, position.entryPrice, stopLossPercent)
        THEN <<"STOP_LOSS", "(change < -stopLossPercent)">>
      ELSE NoReason

(***************************************************************************)
(* riskManager and performanceTracker, as closePosition uses them          *)
(***************************************************************************)

MaxDay == 1
Days == 0..MaxDay

maxDailyLoss == 50000                \* 0.05

ZeroPnL == [GBP |-> 0, USD |-> 0]

\* currencyManager.exchangeRates['USD/GBP'] = 0.79
UsdToGbp(amount) == (amount * 79) \div 100

checkDailyReset(r, day) ==
  IF day # r.lastResetDay
    THEN [r EXCEPT !.dailyPnL[day] = ZeroPnL, !.lastResetDay = day]
    ELSE r

updateDailyPnL(r, day, profit, currency) ==
  LET r1 == checkDailyReset(r, day)
      d  == r1.lastResetDay
      r2 == IF r1.dailyPnL[d] = Null THEN [r1 EXCEPT !.dailyPnL[d] = ZeroPnL] ELSE r1
      r3 == [r2 EXCEPT !.dailyPnL[d][currency] = @ + profit]
      gbpEquivalent == IF currency = "GBP"
                         THEN r3.dailyPnL[d].GBP
                         ELSE r3.dailyPnL[d].GBP + UsdToGbp(r3.dailyPnL[d].USD)
  IN  IF gbpEquivalent < -maxDailyLoss
        THEN [r3 EXCEPT !.tradingEnabled = "false"]
        ELSE r3

\* performanceTracker.recordTrade(trade): the counters of this.stats it
\* advances.
recordTrade(stats, trade) ==
  [ stats EXCEPT
      !.totalTrades = @ + 1,
      !.winningTrades = IF trade.profit > 0 THEN @ + 1 ELSE @,
      !.losingTrades = IF trade.profit < 0 THEN @ + 1 ELSE @,
      !.breakEvenTrades = IF trade.profit = 0 THEN @ + 1 ELSE @ ]

NoTrades ==
  [totalTrades |-> 0, winningTrades |-> 0, losingTrades |-> 0, breakEvenTrades |-> 0]

\* The trade closePosition hands to performanceTracker.recordTrade.
TradeOf(call) ==
  [ symbol |-> call.symbol,
    side |-> call.position.side,
    entryPrice |-> call.position.entryPrice,
    exitPrice |-> call.currentPrice,
    volume |-> call.position.volume,
    profit |-> call.profit,
    leveraged |-> call.position.leveraged,
    leverage |-> call.position.leverage,
    currency |-> call.currency,
    reason |-> call.reason ]

(***************************************************************************)
(* The exchange, as the program sees it                                    *)
(***************************************************************************)

MaxOpens == 2
MaxOpensWide == 4

\* The number of positions opened is capped, by the width of the market.
OpensLeft == clock < (IF tradeablePairs = WideSymbols THEN MaxOpensWide ELSE MaxOpens)
MaxTicks == 1

\* pair.lastPrice at decision time (100.0, and 101.0 as well when a single
\* pair is traded) and the prices a monitoring tick reads (97.5, 98.0, 100.3
\* and 200.0).
LastPrices == {1000, 1010}
LastPricesSeen == IF tradeablePairs = SinglePair THEN LastPrices ELSE {1000}
TickPrices == {975, 980, 1003, 2000}

\* Balance (ZGBP / ZUSD) or TradeBalance equity: 100.0, and, where one pair
\* is traded, also 0 (no ZUSD entry in the Balance result: parseFloat(0)).
Balances == IF tradeablePairs = SinglePair THEN {0, 1000} ELSE {1000}

MsgInsufficientFunds == <<"EOrder", "Insufficient", "funds">>
MsgInvalidLeverage == <<"EOrder", "Invalid", "leverage">>

Response(kind, message) == [kind |-> kind, message |-> message]

\* What await this.kraken.api('AddOrder', orderParams) can do: reject with an
\* error, or resolve with no result, with a result that carries no txid, or
\* with a result that carries one.
OrderResponses ==
  { Response("throws", m) :
      m \in {MsgTimeout, MsgPermissionDenied, MsgInsufficientFunds, MsgInvalidLeverage} }
  \cup { Response(k, NoError) : k \in {"no_result", "no_txid", "txid"} }

NoResponse == Response("none", NoError)

\* What await this.apiWithRetry('Balance' | 'TradeBalance') can do.
BalanceResponses ==
  { [kind |-> "throws", balance |-> 0], [kind |-> "no_result", balance |-> 0] }
  \cup { [kind |-> "result", balance |-> b] : b \in Balances }

(***************************************************************************)
(* Calls in progress                                                       *)
(***************************************************************************)

\* closePosition(symbol, volume, currentPrice, reason) up to its
\* await this.kraken.api('AddOrder', orderParams); Null when it returns false
\* because there is no position.
ClosePositionCall(map, symbol, currentPrice, reason) ==
  LET position == MapGet(map, symbol)
  IN  IF position = Null THEN Null
      ELSE LET move == Move(position.side = "long", position.entryPrice, currentPrice)
           IN  [ symbol |-> symbol,
                 position |-> position,
                 currentPrice |-> currentPrice,
                 currency |-> CurrencyOf(symbol),
                 closeSide |-> IF position.side = "long" THEN "sell" ELSE "buy",
                 profit |-> ProfitAmount(position.volume, currentPrice, move,
                                         position.entryPrice),
                 reason |-> reason ]

ClosePositionRemovesOnError(response) == TRUE

\* closePosition after the await: the order call did not throw, so the trade
\* is recorded and the position deleted.
ClosePositionRemoves(response) == response.kind # "throws"

ExecuteTradeTracksAnyResponse(response) == response.kind # "throws"

\* executeTrade after the await: result && result.result, and
\* result.result.txid[0] can be read.
ExecuteTradeTracks(response) == response.kind = "txid"

\* The catch block of executeTrade reads `balance` and `leverage`, which are
\* declared inside the try block: a ReferenceError for these messages.
ExecuteTradeCatchRaises(message) ==
  \/ Includes(message, <<"Insufficient", "funds">>)
  \/ Includes(message, <<"Invalid", "leverage">>)

\* What a call returned to its caller, and the response of the order call it
\* had made.
Returned(of, value, response) == [of |-> of, value |-> value, response |-> response.kind]

NotCalled == [of |-> "none", value |-> "none", response |-> "none"]

\* scalpPair made no call: "Already have a position in ..., skipping",
\* "Maximum number of positions reached ..., skipping" or "No valid market
\* data for ...".
Skipped(why) == [of |-> "scalpPair", value |-> why, response |-> "none"]

LoopIdle(returned) == [pc |-> "idle", trade |-> Null, close |-> Null, returned |-> returned]

NextPairUnlessRaised(returned) ==
  [LoopIdle(returned) EXCEPT !.pc = IF returned.value = "raised" THEN "terminated" ELSE "idle"]

\* main: try { await scalpPair(pair) } catch (pairError) { ... } inside the
\* for loop over the pairs: whatever scalpPair returned or raised, the loop
\* goes on to the next pair, and to the next cycle after the last.
NextPair(returned) == LoopIdle(returned)

Ticks == 1..MaxTicks

TickIdle == [pc |-> "idle", symbols |-> <<>>, prices |-> <<>>, after |-> 0,
             cur |-> Null, close |-> Null, returned |-> NotCalled]

ShutdownIdle == [pc |-> "idle", symbols |-> <<>>, index |-> 0, close |-> Null,
                 returned |-> NotCalled]

\* riskManager.canOpenPosition has not been called.
GateIdle ==
  [ calls |-> 0, updates |-> 0, day |-> 0, value |-> "none", why |-> "none", refusedOn |-> {} ]

\* riskManager and the signal generators not called on their own.
SizingIdle == zArgs = Null /\ zResult = Null

StandaloneIdle ==
  gate = GateIdle /\ sArgs = Null /\ sResult = Null /\ sRsi = Null /\ SizingIdle

RiskInit ==
  [ dailyPnL |-> [d \in Days |-> Null], lastResetDay |-> 0, tradingEnabled |-> "undefined" ]

\* The service constructed and initialized, nothing opened yet.  The
\* configuration is the object constants.js exports as written, or the one
\* its exports.X lines declare.
Init ==
  /\ RetryInit
  /\ CombineIdle
  /\ constants \in {ModuleExports, DeclaredExports}
  /\ tradeablePairs = Symbols
  /\ fault = "none"
  /\ positions = <<>>
  /\ clock = 0
  /\ trades = NoTrades
  /\ risk = RiskInit
  /\ today = 0
  /\ running = 0
  /\ loop = LoopIdle(NotCalled)
  /\ ticks = [t \in Ticks |-> TickIdle]
  /\ shutdown = ShutdownIdle
  /\ exited = FALSE
  /\ StandaloneIdle

\* The same with four tradeable symbols, for the trading loop on its own.
InitPairs ==
  /\ RetryInit
  /\ CombineIdle
  /\ constants \in {ModuleExports, DeclaredExports}
  /\ tradeablePairs = WideSymbols
  /\ fault = "none"
  /\ positions = <<>>
  /\ clock = 0
  /\ trades = NoTrades
  /\ risk = RiskInit
  /\ today = 0
  /\ running = 0
  /\ loop = LoopIdle(NotCalled)
  /\ ticks = [t \in Ticks |-> TickIdle]
  /\ shutdown = ShutdownIdle
  /\ exited = FALSE
  /\ StandaloneIdle

\* The same with one tradeable symbol, followed at two prices.
InitPrices ==
  /\ RetryInit
  /\ CombineIdle
  /\ constants \in {ModuleExports, DeclaredExports}
  /\ tradeablePairs = SinglePair
  /\ fault = "none"
  /\ positions = <<>>
  /\ clock = 0
  /\ trades = NoTrades
  /\ risk = RiskInit
  /\ today = 0
  /\ running = 0
  /\ loop = LoopIdle(NotCalled)
  /\ ticks = [t \in Ticks |-> TickIdle]
  /\ shutdown = ShutdownIdle
  /\ exited = FALSE
  /\ StandaloneIdle

\* The ledger and its callers left alone (SpecRetry, SpecCombine).
LifecycleIdle ==
  /\ constants = ModuleExports
  /\ tradeablePairs = Symbols
  /\ fault = "none"
  /\ positions = <<>>
  /\ clock = 0
  /\ trades = NoTrades
  /\ risk = RiskInit
  /\ today = 0
  /\ running = 0
  /\ loop = LoopIdle(NotCalled)
  /\ ticks = [t \in Ticks |-> TickIdle]
  /\ shutdown = ShutdownIdle
  /\ exited = FALSE

(***************************************************************************)
(* The trading loop: scalpPair, executeTrade, closePosition                *)
(***************************************************************************)

Pairs ==
  { [symbol |-> s, lastPrice |-> p, marginEnabled |-> m, reducePositionSize |-> r] :
      s \in WideSymbols, p \in LastPrices, m \in BOOLEAN, r \in {FALSE} }

\* What combineSignals can return for the signals the generators can give
\* about `position`.
Decisions(position) ==
  { combineSignals(r, m, MarketConditions(c, t), position) :
      r \in RsiSignals(position), m \in MacdSignals(position),
      c \in MarketConditionNames, t \in PriceTrendSigns }

FlatDecisions == Decisions(Null)
LongDecisions == Decisions([side |-> "buy"])
ShortDecisions == Decisions([side |-> "sell"])
AllDecisions == FlatDecisions \cup LongDecisions \cup ShortDecisions

\* finalDecision of scalpPair can be `decision` when getPosition returned
\* `position`.
CanDecide(position, decision) ==
  IF position = Null THEN decision \in FlatDecisions
  ELSE IF position.side = "buy" THEN decision \in LongDecisions
  ELSE decision \in ShortDecisions

\* executeTrade(symbol, side, price, marginEnabled, volatility,
\* reducePositionSize) up to its first await: the leverage lookup raises a
\* TypeError (caught: return false) when the configuration has no
\* getValidLeverage.
ExecuteTradeCall(symbol, side, price, marginEnabled, reducePositionSize) ==
  IF ~CanGetValidLeverage
    THEN NextPair(Returned("executeTrade", "false", NoResponse))
    ELSE [ pc |-> "balance",
           trade |-> [ symbol |-> symbol, side |-> side, price |-> price,
                       marginEnabled |-> marginEnabled,
                       reducePositionSize |-> reducePositionSize, volume |-> 0 ],
           close |-> Null,
           returned |-> NotCalled ]

CloseOrderReturnsKeepsPosition(call, response) == UNCHANGED <<trades, risk, positions>>

\* The closing part of a closePosition call, after its order call returned
\* `response`.
CloseOrderReturns(call, response) ==
  IF ClosePositionRemoves(response)
    THEN /\ trades' = recordTrade(trades, TradeOf(call))
         /\ risk' = updateDailyPnL(risk, today, call.profit, "GBP")
         /\ positions' = MapDelete(positions, call.symbol)
    ELSE UNCHANGED <<trades, risk, positions>>

ClosePositionReturned(response) ==
  Returned("closePosition", IF ClosePositionRemoves(response) THEN "true" ELSE "false",
           response)

\* scalpPair(pair), from the market data being in hand to the first exchange
\* call made for the decision (or to its end, when none is made).
ScalpPair(pair, finalDecision) ==
  /\ ~exited
  /\ running = 0
  /\ loop.pc = "idle"
  /\ pair.symbol \in tradeablePairs
  /\ pair.lastPrice \in LastPricesSeen
  /\ LET symbol == pair.symbol
         position == getPosition(symbol)
         canShort == pair.marginEnabled /\ canUseMarginForPair(symbol)
     IN  /\ CanDecide(position, finalDecision)
         /\ IF pair.marginEnabled /\ ~CanGetValidLeverage
              THEN loop' = NextPair(Returned("scalpPair", "raised", NoResponse))
            ELSE IF finalDecision.action \in {"buy", "sell"} /\ position # Null
              THEN loop' = NextPair(Skipped("already_have_position"))
            ELSE IF finalDecision.action \in {"buy", "sell"} /\ hasReachedMaxPositions
              THEN loop' = NextPair(Skipped("max_positions"))
            ELSE IF finalDecision.action = "buy"
              THEN /\ OpensLeft
                   /\ loop' = ExecuteTradeCall(symbol, "buy", pair.lastPrice, canShort,
                                               pair.reducePositionSize)
            ELSE IF finalDecision.action = "sell" /\ canShort
              THEN /\ OpensLeft
                   /\ loop' = ExecuteTradeCall(symbol, "sell", pair.lastPrice, TRUE,
                                               pair.reducePositionSize)
            ELSE IF finalDecision.action = "exit" /\ position # Null
              THEN loop' = [ pc |-> "closing",
                             trade |-> Null,
                             close |-> ClosePositionCall(positions, symbol, pair.lastPrice,
                                                         finalDecision.reason),
                             returned |-> NotCalled ]
            ELSE loop' = NextPair(NotCalled)
  /\ UNCHANGED <<tradeablePairs, fault, constants, positions, clock, trades, risk, today, running, ticks,
                 shutdown, exited>>
  /\ UNCHANGED <<retryVars, combineVars, standaloneVars>>

\* MarketDataMissing with the return after the warning left out: the
\* decision goes on to an order.
MarketDataMissingTrades(pair) ==
  /\ ~exited
  /\ running = 0
  /\ loop.pc = "idle"
  /\ pair.symbol \in tradeablePairs
  /\ pair.lastPrice \in LastPricesSeen
  /\ ~(pair.marginEnabled /\ ~CanGetValidLeverage)
  /\ loop' = [ExecuteTradeCall(pair.symbol, "buy", pair.lastPrice, FALSE,
                               pair.reducePositionSize)
                EXCEPT !.returned = Skipped("no_market_data")]
  /\ UNCHANGED <<tradeablePairs, fault, constants, positions, clock, trades, risk, today, running,
                 ticks, shutdown, exited>>
  /\ UNCHANGED <<retryVars, combineVars, standaloneVars>>

\* scalpPair(pair) when getMarketData(symbol) has caught a failed fetch and
\* returned []: "No valid market data", and scalpPair returns.  The fetch
\* comes after the "Analyzing" log line, which calls getValidLeverage for a
\* margin pair.
MarketDataMissing(pair) ==
  /\ ~exited
  /\ running = 0
  /\ loop.pc = "idle"
  /\ pair.symbol \in tradeablePairs
  /\ pair.lastPrice \in LastPricesSeen
  /\ ~(pair.marginEnabled /\ ~CanGetValidLeverage)
  /\ loop' = NextPair(Skipped("no_market_data"))
  /\ UNCHANGED <<tradeablePairs, fault, constants, positions, clock, trades, risk, today, running,
                 ticks, shutdown, exited>>
  /\ UNCHANGED <<retryVars, combineVars, standaloneVars>>

\* scalpPair(pair) when calculateRSI or calculateMACD has returned null on
\* the candles: "Could not calculate RSI" / "Could not calculate MACD",
\* and scalpPair returns.
IndicatorMissing(pair, indicator) ==
  /\ ~exited
  /\ running = 0
  /\ loop.pc = "idle"
  /\ pair.symbol \in tradeablePairs
  /\ pair.lastPrice \in LastPricesSeen
  /\ ~(pair.marginEnabled /\ ~CanGetValidLeverage)
  /\ loop' = NextPair(Skipped(indicator))
  /\ UNCHANGED <<tradeablePairs, fault, constants, positions, clock, trades, risk, today, running,
                 ticks, shutdown, exited>>
  /\ UNCHANGED <<retryVars, combineVars, standaloneVars>>

\* executeTrade: await this.apiWithRetry('TradeBalance' | 'Balance') settles;
\* on a balance the volume is computed and the order sent.
BalanceReturns(response) ==
  /\ ~exited
  /\ running = 0
  /\ loop.pc = "balance"
  /\ IF response.kind # "result"
       THEN loop' = NextPair(Returned("executeTrade", "false", NoResponse))
       ELSE LET t == loop.trade
                baseTradeAmount == IF CurrencyOf(t.symbol) = "GBP"
                                     THEN constants.TRADE_AMOUNT_USD.value
                                     ELSE constants.TRADE_AMOUNT_USD_USD.value
            IN  loop' = [ loop EXCEPT
                  !.pc = "order",
                  !.trade.marginEnabled = @ /\ canUseMarginForPair(t.symbol),
                  !.trade.volume = OrderVolume(baseTradeAmount, response.balance,
                                               t.reducePositionSize, t.price) ]
  /\ UNCHANGED <<tradeablePairs, fault, constants, positions, clock, trades, risk, today, running, ticks,
                 shutdown, exited>>
  /\ UNCHANGED <<retryVars, combineVars, standaloneVars>>

\* executeTrade: await this.kraken.api('AddOrder', orderParams) settles.
OrderReturns(response) ==
  /\ ~exited
  /\ running = 0
  /\ loop.pc = "order"
  /\ LET t == loop.trade
     IN  IF ExecuteTradeTracks(response)
           THEN /\ positions' =
                     MapSet(positions, PositionKey(t.symbol, t.side),
                            [ symbol |-> t.symbol,
                              side |-> t.side,
                              entryPrice |-> t.price,
                              volume |-> t.volume,
                              timestamp |-> clock + 1,
                              leveraged |-> t.marginEnabled,
                              leverage |-> IF t.marginEnabled THEN getValidLeverage ELSE 1,
                              currency |-> CurrencyOf(t.symbol) ])
                /\ clock' = clock + 1
                /\ loop' = NextPair(Returned("executeTrade", "true", response))
           ELSE /\ UNCHANGED <<positions, clock>>
                /\ loop' = NextPair(Returned("executeTrade",
                     IF response.kind = "throws" /\ ExecuteTradeCatchRaises(response.message)
                       THEN "raised" ELSE "false", response))
  /\ UNCHANGED <<tradeablePairs, fault, constants, trades, risk, today, running, ticks, shutdown, exited>>
  /\ UNCHANGED <<retryVars, combineVars, standaloneVars>>

\* closePosition called by scalpPair: its order call settles.
ExitOrderReturns(response) ==
  /\ ~exited
  /\ running = 0
  /\ loop.pc = "closing"
  /\ CloseOrderReturns(loop.close, response)
  /\ loop' = NextPair(ClosePositionReturned(response))
  /\ UNCHANGED <<tradeablePairs, fault, constants, clock, today, running, ticks, shutdown, exited>>
  /\ UNCHANGED <<retryVars, combineVars, standaloneVars>>

\* The trading loop on its own: cycles of scalpPair calls.
PairsNext ==
  \/ \E pair \in Pairs, finalDecision \in AllDecisions : ScalpPair(pair, finalDecision)
  \/ \E pair \in Pairs : MarketDataMissing(pair)
  \/ \E response \in BalanceResponses : BalanceReturns(response)
  \/ \E response \in OrderResponses : OrderReturns(response)
  \/ \E response \in OrderResponses : ExitOrderReturns(response)

(***************************************************************************)
(* The position-check interval: checkOpenPositions                         *)
(***************************************************************************)

SeqHas(seq, x) == \E i \in 1..Len(seq) : seq[i] = x

\* The interval timer fires: checkOpenPositions up to
\* await this.getCurrentPrices(symbols).  Invocations overlap when one has
\* not finished by the next firing.
CheckOpenPositions(t) ==
  /\ ~exited
  /\ running = 0
  /\ ticks[t].pc = "idle"
  /\ \A u \in Ticks : ticks[u].pc = "idle" => t <= u
  /\ IF Len(positions) = 0
       THEN ticks' = [ticks EXCEPT ![t] = TickIdle]
       ELSE ticks' = [ticks EXCEPT ![t] = [TickIdle EXCEPT !.pc = "prices",
                                                           !.symbols = MapKeys(positions)]]
  /\ UNCHANGED <<tradeablePairs, fault, constants, positions, clock, trades, risk, today, running, loop,
                 shutdown, exited>>
  /\ UNCHANGED <<retryVars, combineVars, standaloneVars>>

\* getCurrentPrices(symbols) settles: it rejects, or resolves with nothing,
\* or with the prices of the symbols asked for (each read when its position
\* is checked).
CurrentPricesReturn(t, outcome) ==
  /\ ~exited
  /\ running = 0
  /\ ticks[t].pc = "prices"
  /\ IF outcome = "prices"
       THEN /\ ticks' = [ticks EXCEPT ![t].pc = "scan"]
            /\ running' = t
       ELSE /\ ticks' = [ticks EXCEPT ![t] = TickIdle]
            /\ UNCHANGED running
  /\ UNCHANGED <<tradeablePairs, fault, constants, positions, clock, trades, risk, today, loop, shutdown,
                 exited>>
  /\ UNCHANGED <<retryVars, combineVars, standaloneVars>>

\* One turn of for (const [symbol, position] of this.positions.entries()):
\* the next entry of the live Map, its price, the thresholds, and the call
\* of closePosition when a threshold is crossed.  The turns of one pass run
\* without any other callback in between.
CheckPosition(t, price) ==
  /\ ~exited
  /\ running = t
  /\ ticks[t].pc = "scan"
  /\ LET tick == ticks[t]
         pending == { i \in 1..Len(positions) : positions[i].value.timestamp > tick.after }
     IN  IF pending = {}
           THEN /\ ticks' = [ticks EXCEPT ![t] = TickIdle]
                /\ running' = 0
           ELSE LET i == CHOOSE i \in pending : \A j \in pending : i <= j
                    symbol == positions[i].key
                    position == positions[i].value
                    currentPrice == IF MapHas(tick.prices, symbol)
                                      THEN MapGet(tick.prices, symbol)
                                      ELSE IF SeqHas(tick.symbols, symbol) THEN price ELSE 0
                    closeReason == IF currentPrice = 0 THEN NoReason
                                   ELSE CloseReason(position, currentPrice)
                    checked == [ tick EXCEPT
                                   !.prices = MapSet(tick.prices, symbol, currentPrice),
                                   !.after = position.timestamp,
                                   !.cur = [ position |-> position,
                                             currentPrice |-> currentPrice,
                                             closeReason |-> closeReason ] ]
                IN  IF closeReason = NoReason
                      THEN /\ ticks' = [ticks EXCEPT ![t] = checked]
                           /\ UNCHANGED running
                      ELSE /\ ticks' = [ticks EXCEPT ![t] =
                                 [ checked EXCEPT
                                     !.pc = "closing",
                                     !.close = ClosePositionCall(positions, symbol,
                                                                 currentPrice, closeReason) ]]
                           /\ running' = 0
  /\ UNCHANGED <<tradeablePairs, fault, constants, positions, clock, trades, risk, today, loop, shutdown,
                 exited>>
  /\ UNCHANGED <<retryVars, combineVars, standaloneVars>>

\* The same with the pass given up when the close has failed.
StopOrderReturnsEndsPassOnFailure(t, response) ==
  /\ ~exited
  /\ running = 0
  /\ ticks[t].pc = "closing"
  /\ CloseOrderReturns(ticks[t].close, response)
  /\ IF ClosePositionRemoves(response)
       THEN /\ ticks' = [ticks EXCEPT ![t].pc = "scan",
                                      ![t].cur = Null,
                                      ![t].close = Null,
                                      ![t].returned = ClosePositionReturned(response)]
            /\ running' = t
       ELSE /\ ticks' = [ticks EXCEPT ![t] = TickIdle]
            /\ running' = 0
  /\ UNCHANGED <<tradeablePairs, fault, constants, clock, today, loop, shutdown, exited>>
  /\ UNCHANGED <<retryVars, combineVars, standaloneVars>>

\* closePosition called by checkOpenPositions: its order call settles, and
\* the pass over the positions resumes.
StopOrderReturns(t, response) ==
  /\ ~exited
  /\ running = 0
  /\ ticks[t].pc = "closing"
  /\ CloseOrderReturns(ticks[t].close, response)
  /\ ticks' = [ticks EXCEPT ![t].pc = "scan",
                            ![t].cur = Null,
                            ![t].close = Null,
                            ![t].returned = ClosePositionReturned(response)]
  /\ running' = t
  /\ UNCHANGED <<tradeablePairs, fault, constants, clock, today, loop, shutdown, exited>>
  /\ UNCHANGED <<retryVars, combineVars, standaloneVars>>

(***************************************************************************)
(* SIGINT: closeAllPositions, then process.exit(0)                         *)
(***************************************************************************)

\* for (const symbol of symbols) from index `from` on, over the ledger `map`:
\* up to the next closePosition call awaited, or to process.exit(0).
\* CloseAllPositionsFrom passing a price one unit above the entry price.
CloseAllPositionsFromAboveEntry(map, symbols, from, returned) ==
  LET rest == { k \in (from + 1)..Len(symbols) : MapHas(map, symbols[k]) }
  IN  IF rest = {}
        THEN [ pc |-> "done", symbols |-> symbols, index |-> Len(symbols),
               close |-> Null, returned |-> returned ]
        ELSE LET k == CHOOSE k \in rest : \A j \in rest : k <= j
                 position == MapGet(map, symbols[k])
             IN  [ pc |-> "closing", symbols |-> symbols, index |-> k,
                   close |-> ClosePositionCall(map, symbols[k], position.entryPrice + 10,
                                               <<"FORCED_EXIT">>),
                   returned |-> returned ]

CloseAllPositionsFrom(map, symbols, from, returned) ==
  LET rest == { k \in (from + 1)..Len(symbols) : MapHas(map, symbols[k]) }
  IN  IF rest = {}
        THEN [ pc |-> "done", symbols |-> symbols, index |-> Len(symbols),
               close |-> Null, returned |-> returned ]
        ELSE LET k == CHOOSE k \in rest : \A j \in rest : k <= j
                 position == MapGet(map, symbols[k])
             IN  [ pc |-> "closing", symbols |-> symbols, index |-> k,
                   close |-> ClosePositionCall(map, symbols[k], position.entryPrice,
                                               <<"FORCED_EXIT">>),
                   returned |-> returned ]

\* process.exit(0) when closeAllPositions has returned: the callbacks still
\* in progress are abandoned.
ProcessExit(done) ==
  /\ exited' = done
  /\ IF done
       THEN /\ loop' = LoopIdle(NotCalled)
            /\ ticks' = [t \in Ticks |-> TickIdle]
       ELSE UNCHANGED <<loop, ticks>>

\* process.on('SIGINT'): closeAllPositions is entered.
Sigint ==
  /\ ~exited
  /\ running = 0
  /\ shutdown.pc = "idle"
  /\ shutdown' = CloseAllPositionsFrom(positions, MapKeys(positions), 0, NotCalled)
  /\ ProcessExit(shutdown'.pc = "done")
  /\ UNCHANGED <<tradeablePairs, fault, constants, positions, clock, trades, risk, today, running>>
  /\ UNCHANGED <<retryVars, combineVars, standaloneVars>>

\* closePosition called by closeAllPositions: its order call settles, and the
\* loop over the symbols resumes.
ForcedExitOrderReturns(response) ==
  /\ ~exited
  /\ running = 0
  /\ shutdown.pc = "closing"
  /\ CloseOrderReturns(shutdown.close, response)
  /\ shutdown' = CloseAllPositionsFrom(positions', shutdown.symbols, shutdown.index,
                                       ClosePositionReturned(response))
  /\ ProcessExit(shutdown'.pc = "done")
  /\ UNCHANGED <<tradeablePairs, fault, constants, clock, today, running>>
  /\ UNCHANGED <<retryVars, combineVars, standaloneVars>>

\* A fault reaches main's outer catch: "Fatal error in main loop",
\* closeAllPositions, process.exit(1).  Past the start-up statements the
\* loop body is one try block, so the catch is reached before any cycle.
FatalError ==
  /\ ~exited
  /\ running = 0
  /\ fault = "none"
  /\ shutdown.pc = "idle"
  /\ clock = 0
  /\ loop = LoopIdle(NotCalled)
  /\ fault' = "fatal"
  /\ shutdown' = CloseAllPositionsFrom(positions, MapKeys(positions), 0, NotCalled)
  /\ ProcessExit(shutdown'.pc = "done")
  /\ UNCHANGED <<tradeablePairs, constants, positions, clock, trades, risk, today, running>>
  /\ UNCHANGED <<retryVars, combineVars, standaloneVars>>

\* process.on('uncaughtException') and process.on('unhandledRejection'): the
\* error is logged and process.exit(1) is called.
UncaughtFault(kind) ==
  /\ ~exited
  /\ running = 0
  /\ fault = "none"
  /\ fault' = kind
  /\ ProcessExit(TRUE)
  /\ UNCHANGED <<tradeablePairs, constants, positions, clock, trades, risk, today, running,
                 shutdown>>
  /\ UNCHANGED <<retryVars, combineVars, standaloneVars>>

Next ==
  \/ \E pair \in Pairs, finalDecision \in AllDecisions : ScalpPair(pair, finalDecision)
  \/ \E pair \in Pairs : MarketDataMissing(pair)
  \/ \E response \in BalanceResponses : BalanceReturns(response)
  \/ \E response \in OrderResponses : OrderReturns(response)
  \/ \E response \in OrderResponses : ExitOrderReturns(response)
  \/ \E t \in Ticks : CheckOpenPositions(t)
  \/ \E t \in Ticks, outcome \in {"throws", "empty", "prices"} : CurrentPricesReturn(t, outcome)
  \/ \E t \in Ticks, price \in TickPrices \cup {0} : CheckPosition(t, price)
  \/ \E t \in Ticks, response \in OrderResponses : StopOrderReturns(t, response)
  \/ Sigint
  \/ \E response \in OrderResponses : ForcedExitOrderReturns(response)

\* The trading loop and the position-check interval while no signal arrives.
MonitorNext ==
  \/ \E pair \in Pairs, finalDecision \in AllDecisions : ScalpPair(pair, finalDecision)
  \/ \E pair \in Pairs : MarketDataMissing(pair)
  \/ \E response \in BalanceResponses : BalanceReturns(response)
  \/ \E response \in OrderResponses : OrderReturns(response)
  \/ \E response \in OrderResponses : ExitOrderReturns(response)
  \/ \E t \in Ticks : CheckOpenPositions(t)
  \/ \E t \in Ticks, outcome \in {"throws", "empty", "prices"} : CurrentPricesReturn(t, outcome)
  \/ \E t \in Ticks, price \in TickPrices \cup {0} : CheckPosition(t, price)
  \/ \E t \in Ticks, response \in OrderResponses : StopOrderReturns(t, response)

\* setInterval keeps firing the position check and a pass that has its
\* prices runs to its end; the prices arrive again and again; a position's
\* price is again and again beyond a threshold (the breach persists); close
\* orders are again and again confirmed.
MonitorFairness ==
  /\ WF_vars(\E t \in Ticks : CheckOpenPositions(t))
  /\ WF_vars(\E t \in Ticks, price \in TickPrices \cup {0} : CheckPosition(t, price))
  /\ SF_vars(\E t \in Ticks : CurrentPricesReturn(t, "prices"))
  /\ SF_vars(\E t \in Ticks, price \in TickPrices :
               CheckPosition(t, price) /\ ticks'[t].pc = "closing")
  /\ SF_vars(\E t \in Ticks, response \in OrderResponses :
               response.kind = "txid" /\ StopOrderReturns(t, response))

\* The trading loop and the position-check interval with the faults that end
\* the process.
FaultNext ==
  \/ \E pair \in Pairs, finalDecision \in AllDecisions : ScalpPair(pair, finalDecision)
  \/ \E pair \in Pairs : MarketDataMissing(pair)
  \/ \E response \in BalanceResponses : BalanceReturns(response)
  \/ \E response \in OrderResponses : OrderReturns(response)
  \/ \E response \in OrderResponses : ExitOrderReturns(response)
  \/ \E t \in Ticks : CheckOpenPositions(t)
  \/ \E t \in Ticks, outcome \in {"throws", "empty", "prices"} : CurrentPricesReturn(t, outcome)
  \/ \E t \in Ticks, price \in TickPrices \cup {0} : CheckPosition(t, price)
  \/ \E t \in Ticks, response \in OrderResponses : StopOrderReturns(t, response)
  \/ FatalError
  \/ \E kind \in {"uncaughtException", "unhandledRejection"} : UncaughtFault(kind)

(***************************************************************************)
(* riskManager on its own: updateDailyPnL, canOpenPosition and the calendar *)
(***************************************************************************)

MaxUpdates == 4

maxOpenPositions == 3

\* Profits of closed trades handed to updateDailyPnL (-6.0, -3.0 and +3.0)
\* and the account balance handed to canOpenPosition (100.0).
Profits == {-6000000, -3000000, 3000000}
AccountBalances == {1000}
OpenPositionsCounts == {0, 3}

\* this.maxDailyLoss * accountBalance, in millionths of a pound.
MaxDailyLossOf(accountBalance) == (maxDailyLoss * accountBalance) \div 10

\* canOpenPosition(accountBalance, openPositionsCount) after its
\* checkDailyReset: the value returned and the test that decided it.  The
\* day's entry of dailyPnL is read without a guard: a TypeError when no
\* updateDailyPnL and no day change has created it.
canOpenPosition(r, accountBalance, openPositionsCount) ==
  LET pnl == r.dailyPnL[r.lastResetDay]
  IN  IF pnl = Null THEN <<"throws", "TypeError">>
      ELSE IF pnl.GBP < 0 /\ Abs(pnl.GBP) >= MaxDailyLossOf(accountBalance)
        THEN <<"false", "daily_loss">>
      ELSE IF openPositionsCount >= maxOpenPositions THEN <<"false", "max_positions">>
      ELSE <<"true", "none">>

\* The calls made to riskManager so far.
RiskIdle == gate.calls + gate.updates < MaxUpdates

\* new Date().toDateString() changes: midnight passes.
Midnight ==
  /\ today < MaxDay
  /\ today' = today + 1
  /\ UNCHANGED <<tradeablePairs, fault, constants, positions, clock, trades, risk, running, loop, ticks,
                 shutdown, exited>>
  /\ UNCHANGED <<retryVars, combineVars, gateVars, signalVars, sizingVars>>

\* riskManager.updateDailyPnL(profit, currency), as a closed trade calls it.
UpdateDailyPnL(profit, currency) ==
  /\ RiskIdle
  /\ risk' = updateDailyPnL(risk, today, profit, currency)
  /\ gate' = [gate EXCEPT !.updates = @ + 1]
  /\ UNCHANGED <<tradeablePairs, fault, constants, positions, clock, trades, today, running, loop, ticks,
                 shutdown, exited>>
  /\ UNCHANGED <<retryVars, combineVars, signalVars, sizingVars>>

\* riskManager.canOpenPosition(accountBalance, openPositionsCount).
CanOpenPosition(accountBalance, openPositionsCount) ==
  /\ RiskIdle
  /\ risk' = checkDailyReset(risk, today)
  /\ LET answer == canOpenPosition(risk', accountBalance, openPositionsCount)
     IN  gate' = [ calls |-> gate.calls + 1,
                   updates |-> gate.updates,
                   day |-> today,
                   value |-> answer[1],
                   why |-> answer[2],
                   refusedOn |-> IF answer[2] = "daily_loss"
                                   THEN gate.refusedOn \cup {today}
                                   ELSE gate.refusedOn ]
  /\ UNCHANGED <<tradeablePairs, fault, constants, positions, clock, trades, today, running, loop, ticks,
                 shutdown, exited>>
  /\ UNCHANGED <<retryVars, combineVars, signalVars, sizingVars>>

RiskNext ==
  \/ Midnight
  \/ \E profit \in Profits, currency \in {"GBP", "USD"} : UpdateDailyPnL(profit, currency)
  \/ \E accountBalance \in AccountBalances, openPositionsCount \in OpenPositionsCounts :
       CanOpenPosition(accountBalance, openPositionsCount)

(***************************************************************************)
(* The signal generators on their own: RSIStrategy and MACDStrategy        *)
(***************************************************************************)

MaxCandles == 5

\* RSI values are in hundredths, price changes in thousandths of a percent.
RsiScale == 100
ChangeScale == 100000

\* JavaScript comparisons of a number with a property that may be undefined.
JsBelow(x, threshold) == threshold.defined /\ x < threshold.value * RsiScale
JsAbove(x, threshold) == threshold.defined /\ x > threshold.value * RsiScale
JsNotBelow(x, threshold) == threshold.defined /\ x >= threshold.value * RsiScale
JsNotAbove(x, threshold) == threshold.defined /\ x <= threshold.value * RsiScale

RSI_OVERSOLD_EXTREME == 25
RSI_OVERSOLD == 35
RSI_OVERBOUGHT == 65
RSI_EXTREME_OVERBOUGHT == 75

\* new RSIStrategy(adjustments): the constructor stores the adjustments and
\* sets no threshold.
RSIStrategy(adjustments) ==
  [ adjustments |-> adjustments,
    oversoldExtreme |-> Undefined, oversold |-> Undefined,
    overbought |-> Undefined, overboughtExtreme |-> Undefined ]

\* The same strategy once the thresholds constants.js declares had been
\* assigned to it (RSI_OVERSOLD_EXTREME, RSI_OVERSOLD, RSI_OVERBOUGHT,
\* RSI_EXTREME_OVERBOUGHT).
RSIStrategyWithThresholds(adjustments) ==
  [ adjustments |-> adjustments,
    oversoldExtreme |-> Defined(RSI_OVERSOLD_EXTREME),
    oversold |-> Defined(RSI_OVERSOLD),
    overbought |-> Defined(RSI_OVERBOUGHT),
    overboughtExtreme |-> Defined(RSI_EXTREME_OVERBOUGHT) ]

\* adjustForActivity's results for very low and for normal activity.
Adjustments == { [minTrades |-> 1, rsiPeriod |-> 3], [minTrades |-> 3, rsiPeriod |-> 14] }

\* An array, or null.
NoArray == [isNull |-> TRUE, values |-> <<>>]
Array(values) == [isNull |-> FALSE, values |-> values]

SeqSum(seq) ==
  LET Sum[i \in 0..Len(seq)] == IF i = 0 THEN 0 ELSE Sum[i - 1] + seq[i]
  IN  Sum[Len(seq)]

\* array.slice(-n)
SliceLast(seq, n) ==
  IF Len(seq) <= n THEN seq ELSE SubSeq(seq, Len(seq) - n + 1, Len(seq))

\* validatePrices(marketData, symbol)
validatePrices(strategy, marketData) ==
  LET recentPrices == SliceLast([i \in 1..Len(marketData) |-> marketData[i].close], 10)
      uniquePrices == Cardinality({ recentPrices[i] : i \in 1..Len(recentPrices) })
      activeCandles == Cardinality({ i \in 1..Len(marketData) : marketData[i].trades > 0 })
      minTrades == strategy.adjustments.minTrades
  IN  IF minTrades <= 1 THEN activeCandles >= 1 /\ uniquePrices >= 1
      ELSE IF minTrades <= 2 THEN activeCandles >= 2 /\ uniquePrices >= 1
      ELSE activeCandles >= 5 /\ uniquePrices >= 3

\* calculateRSI(marketData) that answers 50 whenever the average loss is
\* zero.
calculateRSIWithoutGains(strategy, marketData) ==
  IF ~validatePrices(strategy, marketData) THEN NoArray
  ELSE LET n == Len(marketData)
           diff(i) == marketData[i + 1].close - marketData[i].close
           gains == [ i \in 1..(n - 1) |->
                        IF diff(i) > 0 THEN (diff(i) * ChangeScale) \div marketData[i].close
                        ELSE 0 ]
           losses == [ i \in 1..(n - 1) |->
                         IF diff(i) < 0 THEN ((-diff(i)) * ChangeScale) \div marketData[i].close
                         ELSE 0 ]
           period == strategy.adjustments.rsiPeriod
           sumGain == SeqSum(SliceLast(gains, period))
           sumLoss == SeqSum(SliceLast(losses, period))
           rsi == IF sumLoss = 0 THEN 50 * RsiScale
                  ELSE IF sumGain = 0 THEN 30 * RsiScale
                  ELSE (100 * RsiScale * sumGain) \div (sumGain + sumLoss)
       IN  Array(<<rsi>>)

\* calculateRSI(marketData): null, or an array that holds one RSI value.
calculateRSI(strategy, marketData) ==
  IF ~validatePrices(strategy, marketData) THEN NoArray
  ELSE LET n == Len(marketData)
           diff(i) == marketData[i + 1].close - marketData[i].close
           gains == [ i \in 1..(n - 1) |->
                        IF diff(i) > 0 THEN (diff(i) * ChangeScale) \div marketData[i].close
                        ELSE 0 ]
           losses == [ i \in 1..(n - 1) |->
                         IF diff(i) < 0 THEN ((-diff(i)) * ChangeScale) \div marketData[i].close
                         ELSE 0 ]
           period == strategy.adjustments.rsiPeriod
           sumGain == SeqSum(SliceLast(gains, period))
           sumLoss == SeqSum(SliceLast(losses, period))
           rsi == IF sumLoss = 0 THEN (IF sumGain > 0 THEN 70 * RsiScale ELSE 50 * RsiScale)
                  ELSE IF sumGain = 0 THEN 30 * RsiScale
                  ELSE (100 * RsiScale * sumGain) \div (sumGain + sumLoss)
       IN  Array(<<rsi>>)

\* RSIStrategy.getSignal(rsiValues, position) that looks for entries
\* whether or not a position is held.
rsiGetSignalEntersWhileHeld(strategy, rsiValues, position) ==
  IF rsiValues.isNull \/ Len(rsiValues.values) < 2 THEN RsiInsufficientData
  ELSE LET currentRSI == rsiValues.values[Len(rsiValues.values)]
           previousRSI == rsiValues.values[Len(rsiValues.values) - 1]
       IN  IF JsBelow(currentRSI, strategy.oversoldExtreme) THEN RsiBuyExtremeOversold
           ELSE IF JsBelow(currentRSI, strategy.oversold)
                   /\ JsNotBelow(previousRSI, strategy.oversold)
             THEN RsiBuyCrossingOversold
           ELSE IF JsAbove(currentRSI, strategy.overboughtExtreme)
             THEN RsiSellExtremeOverbought
           ELSE IF JsAbove(currentRSI, strategy.overbought)
                   /\ JsNotAbove(previousRSI, strategy.overbought)
             THEN RsiSellCrossingOverbought
           ELSE RsiNeutral

\* RSIStrategy.getSignal(rsiValues, position)
rsiGetSignal(strategy, rsiValues, position) ==
  IF rsiValues.isNull \/ Len(rsiValues.values) < 2 THEN RsiInsufficientData
  ELSE LET currentRSI == rsiValues.values[Len(rsiValues.values)]
           previousRSI == rsiValues.values[Len(rsiValues.values) - 1]
       IN  IF position # Null
             THEN IF position.side = "buy"
                    THEN IF JsAbove(currentRSI, strategy.overboughtExtreme)
                           THEN RsiExitStrongOverbought
                         ELSE IF JsAbove(currentRSI, strategy.overbought)
                           THEN RsiExitOverbought
                         ELSE RsiHolding
                  ELSE IF position.side = "sell"
                    THEN IF JsBelow(currentRSI, strategy.oversoldExtreme)
                           THEN RsiExitStrongOversold
                         ELSE IF JsBelow(currentRSI, strategy.oversold)
                           THEN RsiExitOversold
                         ELSE RsiHolding
                  ELSE RsiHolding
           ELSE IF JsBelow(currentRSI, strategy.oversoldExtreme) THEN RsiBuyExtremeOversold
           ELSE IF JsBelow(currentRSI, strategy.oversold)
                   /\ JsNotBelow(previousRSI, strategy.oversold)
             THEN RsiBuyCrossingOversold
           ELSE IF JsAbove(currentRSI, strategy.overboughtExtreme)
             THEN RsiSellExtremeOverbought
           ELSE IF JsAbove(currentRSI, strategy.overbought)
                   /\ JsNotAbove(previousRSI, strategy.overbought)
             THEN RsiSellCrossingOverbought
           ELSE RsiNeutral

\* array[array.length - k]: undefined when there is no such element.
FromEnd(array, k) ==
  IF Len(array.values) >= k THEN Defined(array.values[Len(array.values) - k + 1])
  ELSE Undefined

\* a < b and a > b on numbers that may be undefined.
JsLt(a, b) == a.defined /\ b.defined /\ a.value < b.value
JsGt(a, b) == a.defined /\ b.defined /\ a.value > b.value

\* An object with the properties getSignal reads, each an array or missing
\* (a missing property is undefined, which is falsy as null is).
MacdData(macd, signal, histogram) == [MACD |-> macd, signal |-> signal, histogram |-> histogram]

\* MACDStrategy.getSignal(macdData, position); macdData = null is given as
\* an object without properties.
macdGetSignal(macdData, position) ==
  IF macdData.MACD.isNull \/ macdData.signal.isNull \/ macdData.histogram.isNull
    THEN MacdInsufficientData
  ELSE LET currentMACD == FromEnd(macdData.MACD, 1)
           currentSignal == FromEnd(macdData.signal, 1)
           currentHistogram == FromEnd(macdData.histogram, 1)
           previousHistogram == FromEnd(macdData.histogram, 2)
           zero == Defined(0)
       IN  IF position # Null
             THEN IF /\ position.side = "buy"
                     /\ JsGt(currentMACD, zero) /\ JsLt(currentMACD, currentSignal)
                     /\ JsGt(previousHistogram, currentHistogram)
                    THEN MacdExitBearishCross
                  ELSE IF /\ position.side = "sell"
                          /\ JsLt(currentMACD, zero) /\ JsGt(currentMACD, currentSignal)
                          /\ JsLt(previousHistogram, currentHistogram)
                    THEN MacdExitBullishCross
                  ELSE MacdHolding
           ELSE IF /\ JsLt(currentMACD, zero) /\ JsGt(currentMACD, currentSignal)
                   /\ JsLt(previousHistogram, currentHistogram)
             THEN MacdBuyBelowZero
           ELSE IF /\ JsGt(currentMACD, zero) /\ JsGt(currentMACD, currentSignal)
                   /\ JsLt(previousHistogram, currentHistogram)
             THEN MacdBuyAboveZero
           ELSE IF /\ JsGt(currentMACD, zero) /\ JsLt(currentMACD, currentSignal)
                   /\ JsGt(previousHistogram, currentHistogram)
             THEN MacdSellAboveZero
           ELSE IF /\ JsLt(currentMACD, zero) /\ JsLt(currentMACD, currentSignal)
                   /\ JsGt(previousHistogram, currentHistogram)
             THEN MacdSellBelowZero
           ELSE MacdNeutral

\* Closing prices of the candles handed to calculateRSI.
ClosePrices == {80, 84, 100}

SeqsUpTo(values, n) == UNION { [1..k -> values] : k \in 0..n }

MarketData ==
  { [i \in 1..Len(closes) |-> [close |-> closes[i], trades |-> count]] :
      closes \in SeqsUpTo(ClosePrices, MaxCandles), count \in {0, 1} }

\* RSI series handed to getSignal directly: RSI 20, 30, 50, 70 and 80.
RsiSeries ==
  {NoArray} \cup { Array(values) : values \in SeqsUpTo({2000, 3000, 5000, 7000, 8000}, 2) }

\* The MACD and signal lines, and the histogram, of a MACD object.
MacdSeries == {NoArray} \cup { Array(values) : values \in SeqsUpTo({-2, -1, 1, 2}, 1) }
HistogramSeries == {NoArray} \cup { Array(values) : values \in SeqsUpTo({-1, 1}, 2) }

RsiStrategies ==
  { RSIStrategy(a) : a \in Adjustments } \cup { RSIStrategyWithThresholds(a) : a \in Adjustments }

NoMacdData == MacdData(NoArray, NoArray, NoArray)

SignalCall(generator, source, strategy, marketData, rsiValues, macdData, position) ==
  [ generator |-> generator, source |-> source, strategy |-> strategy,
    marketData |-> marketData, rsiValues |-> rsiValues, macdData |-> macdData,
    position |-> position ]

\* The calls: rsiStrategy.getSignal(rsiStrategy.calculateRSI(marketData),
\* position) as scalpPair makes it, rsiStrategy.getSignal on a series given
\* directly, and macdStrategy.getSignal on an object whose properties are
\* arrays or missing (calculateMACD's result has no MACD and no signal).
SignalArgs ==
  { SignalCall("rsi", "calculateRSI", strategy, marketData, NoArray, NoMacdData, position) :
      strategy \in RsiStrategies, marketData \in MarketData, position \in CombinePositions }
    \cup
  { SignalCall("rsi", "series", strategy, <<>>, rsiValues, NoMacdData, position) :
      strategy \in RsiStrategies, rsiValues \in RsiSeries, position \in CombinePositions }
    \cup
  { SignalCall("macd", "object", RSIStrategy([minTrades |-> 1, rsiPeriod |-> 3]), <<>>,
               NoArray, MacdData(macd, signal, histogram), position) :
      macd \in MacdSeries, signal \in MacdSeries, histogram \in HistogramSeries,
      position \in CombinePositions }

\* scalpPair returned before it called getSignal: "Could not calculate RSI".
NoSignal == Signal("none", <<"Could", "not", "calculate", "RSI">>)

\* The RSI series of the call.
RsiValuesOf(call) ==
  IF call.source = "calculateRSI" THEN calculateRSI(call.strategy, call.marketData)
  ELSE call.rsiValues

\* The generator is applied.
GetSignal ==
  /\ sArgs # Null
  /\ sResult = Null
  /\ sResult' =
       IF sArgs.generator = "macd" THEN macdGetSignal(sArgs.macdData, sArgs.position)
       ELSE IF sArgs.source = "calculateRSI" /\ RsiValuesOf(sArgs).isNull THEN NoSignal
       ELSE rsiGetSignal(sArgs.strategy, RsiValuesOf(sArgs), sArgs.position)
  /\ sRsi' = IF sArgs.source = "calculateRSI" THEN RsiValuesOf(sArgs) ELSE Null
  /\ UNCHANGED sArgs
  /\ UNCHANGED <<retryVars, combineVars, lifecycleVars, gateVars, sizingVars>>

SignalNext == GetSignal

(***************************************************************************)
(* riskManager.calculatePositionSize                                       *)
(***************************************************************************)

\* A JavaScript number: NaN, an infinity, or a finite value.
NaN == [kind |-> "NaN", value |-> 0]
Infinity == [kind |-> "Infinity", value |-> 0]
NegInfinity == [kind |-> "-Infinity", value |-> 0]
Finite(value) == [kind |-> "finite", value |-> value]

\* x <= 0
NotPositive(x) == x.kind = "-Infinity" \/ (x.kind = "finite" /\ x.value <= 0)

\* this.maxRiskPerTrade = 0.01, in hundredths.
maxRiskPerTrade == 1

\* 0.0000001 in the unit of stopLossAmount, 1e-9.
MinStopLossAmount == 100

\* riskMultiplier, in tenths; volatility in tenths.
riskMultiplierFlat(volatility) == 10

riskMultiplier(volatility) ==
  IF volatility > 20 THEN 5 ELSE IF volatility < 5 THEN 15 ELSE 10

\* calculatePositionSize(accountBalance, price, stopLossPercent, volatility):
\* accountBalance in tenths, price in millionths, stopLossPercent in tenths
\* of a percent, the size returned in whole units of the asset.
calculatePositionSize(accountBalance, price, stopLossPercent, volatility) ==
  IF accountBalance.kind = "NaN" \/ NotPositive(accountBalance) THEN Finite(0)
  ELSE IF price.kind = "NaN" \/ NotPositive(price) THEN Finite(0)
  ELSE IF stopLossPercent.kind = "NaN" \/ NotPositive(stopLossPercent) THEN Finite(0)
  ELSE LET riskAmount ==                                    \* in 1e-4
             IF accountBalance.kind = "Infinity" THEN Infinity
             ELSE Finite(accountBalance.value * maxRiskPerTrade * riskMultiplier(volatility))
           stopLossAmount ==                                \* in 1e-9
             IF price.kind = "Infinity" \/ stopLossPercent.kind = "Infinity" THEN Infinity
             ELSE Finite(price.value * stopLossPercent.value)
       IN  IF stopLossAmount.kind = "finite" /\ stopLossAmount.value < MinStopLossAmount
             THEN Finite(0)
           ELSE IF riskAmount.kind = "Infinity"
             THEN (IF stopLossAmount.kind = "Infinity" THEN NaN ELSE Infinity)
           ELSE IF stopLossAmount.kind = "Infinity" THEN Finite(0)
           ELSE Finite((riskAmount.value * 100000) \div stopLossAmount.value)

\* Balances of 10.0 and 20.0, prices of 0.000001, 0.00001 and 0.01, stop
\* losses of 1% and 2%, with the values that are not positive or not finite;
\* volatilities of 0.2, 0.5, 1.0, 2.0 and 2.5.
SizingBalances == {NaN, Infinity, NegInfinity, Finite(-100), Finite(0), Finite(100), Finite(200)}
SizingPrices == {NaN, Infinity, Finite(0), Finite(1), Finite(10), Finite(10000)}
SizingStopLosses == {NaN, Infinity, Finite(0), Finite(10), Finite(20)}
Volatilities == {2, 5, 10, 20, 25}

SizingArgs ==
  { [accountBalance |-> b, price |-> p, stopLossPercent |-> s, volatility |-> v] :
      b \in SizingBalances, p \in SizingPrices, s \in SizingStopLosses, v \in Volatilities }

\* The function is applied.
CalculatePositionSize ==
  /\ zArgs # Null
  /\ zResult = Null
  /\ zResult' = calculatePositionSize(zArgs.accountBalance, zArgs.price,
                                      zArgs.stopLossPercent, zArgs.volatility)
  /\ UNCHANGED zArgs
  /\ UNCHANGED <<retryVars, combineVars, lifecycleVars, gateVars, signalVars>>

SizingNext == CalculatePositionSize

(***************************************************************************)
(* Specifications                                                          *)
(***************************************************************************)

InitRetry == RetryInit /\ CombineIdle /\ LifecycleIdle /\ StandaloneIdle

InitSignals ==
  /\ RetryInit
  /\ CombineIdle
  /\ LifecycleIdle
  /\ gate = GateIdle
  /\ sArgs \in SignalArgs
  /\ sResult = Null
  /\ sRsi = Null
  /\ SizingIdle

InitSizing ==
  /\ RetryInit
  /\ CombineIdle
  /\ LifecycleIdle
  /\ gate = GateIdle /\ sArgs = Null /\ sResult = Null /\ sRsi = Null
  /\ zArgs \in SizingArgs
  /\ zResult = Null

SpecRetry == InitRetry /\ [][RetryNext]_vars

InitCombine == RetryInit /\ CombineInit /\ LifecycleIdle /\ StandaloneIdle

SpecCombine == InitCombine /\ [][CombineNext]_vars

Spec == Init /\ [][Next]_vars

SpecMonitor == Init /\ [][MonitorNext]_vars /\ MonitorFairness

SpecPairs == InitPairs /\ [][PairsNext]_vars

SpecPrices == InitPrices /\ [][PairsNext]_vars

SpecFaults == Init /\ [][FaultNext]_vars

\* The trading loop on one pair, with the decisions that end before a signal
\* is computed.
IndicatorsNext ==
  \/ \E pair \in Pairs, finalDecision \in AllDecisions : ScalpPair(pair, finalDecision)
  \/ \E pair \in Pairs : MarketDataMissing(pair)
  \/ \E pair \in Pairs, indicator \in {"no_rsi", "no_macd"} : IndicatorMissing(pair, indicator)
  \/ \E response \in BalanceResponses : BalanceReturns(response)
  \/ \E response \in OrderResponses : OrderReturns(response)
  \/ \E response \in OrderResponses : ExitOrderReturns(response)

SpecIndicators == InitPrices /\ [][IndicatorsNext]_vars

SpecSignals == InitSignals /\ [][SignalNext]_vars

SpecRisk == InitRetry /\ [][RiskNext]_vars

SpecSizing == InitSizing /\ [][SizingNext]_vars

(***************************************************************************)
(* Properties of apiWithRetry (checked under SpecRetry)                    *)
(***************************************************************************)

IsCall(e) == e.type = "call"
CallEvents == SelectSeq(events, IsCall)

\* Every gateway call made so far (at least one) raised `message`.
AllCallsThrew(message) ==
  /\ Len(CallEvents) > 0
  /\ \A i \in 1..Len(CallEvents) : CallEvents[i].outcome = message

TransientMessages == {MsgTimeout, MsgRateLimit}

\* C5: a call whose gateway call always raises a transient error makes exactly
\* 3 attempts, waits RETRY_DELAY (2000 ms) between consecutive attempts and
\* not after the last one, and then fails with that error.
C5_TransientRetriedThreeTimes ==
  \A m \in TransientMessages :
    AllCallsThrew(m) =>
      /\ rpc # "returned"
      /\ Len(CallEvents) <= 3
      /\ (Len(CallEvents) = 3 => rpc = "thrown")
      /\ (rpc = "thrown" =>
            /\ events = << CallEvent(1, m), WaitEvent(1, 2000), CallEvent(2, m),
                           WaitEvent(2, 2000), CallEvent(3, m) >>
            /\ lastError = m)

C5_Witness ==
  /\ rpc = "thrown"
  /\ AllCallsThrew(MsgTimeout)
  /\ Len(CallEvents) = 3

\* C6 (as claimed): a call whose gateway call always raises "Permission
\* denied" is attempted exactly once.
C6_PermissionDeniedAttemptedOnce ==
  AllCallsThrew(MsgPermissionDenied) => (Len(CallEvents) = 1 /\ rpc = "thrown")

ClaimedFatalMessages == {MsgInvalidKey, MsgInvalidNonce, MsgInvalidArguments}

\* C7: a gateway attempt that raises "Invalid key", "Invalid nonce" or "Invalid
\* arguments" is the last thing the invocation does: no wait and no further
\* attempt follows, and the invocation has failed with that error, on whichever
\* attempt it occurs.
C7_FatalErrorFailsImmediately ==
  \A i \in 1..Len(events) :
    (events[i].type = "call" /\ events[i].outcome \in ClaimedFatalMessages) =>
      /\ i = Len(events)
      /\ rpc = "thrown"
      /\ lastError = events[i].outcome

C7_Witness ==
  /\ rpc = "thrown"
  /\ Len(CallEvents) = 2
  /\ CallEvents[1].outcome = MsgTimeout
  /\ CallEvents[2].outcome = MsgInvalidNonce
  /\ events[Len(events)].type = "call"

(***************************************************************************)
(* Properties of combineSignals (checked under SpecCombine)                *)
(***************************************************************************)

CombinedVolatileFlat ==
  /\ cResult # Null
  /\ cArgs.position = Null
  /\ cArgs.marketConditions.marketCondition = "volatile"

BothBuy == cArgs.rsiSignal.action = "buy" /\ cArgs.macdSignal.action = "buy"
ExactlyOneBuy == (cArgs.rsiSignal.action = "buy") # (cArgs.macdSignal.action = "buy")
VolatileCaution == Signal("wait", <<"VOLATILE", "MARKET", "CAUTION">>)
RsiReasonIsExtreme == cArgs.rsiSignal \in {RsiBuyExtremeOversold, RsiSellExtremeOverbought}

\* C10 (as claimed): volatile regime, no position: Buy only when both signals
\* are Buy; exactly one Buy, for any RSI reason, gives Wait with reason
\* VOLATILE_MARKET_CAUTION.
C10_VolatileBuyNeedsBoth ==
  CombinedVolatileFlat =>
    /\ (cResult.action = "buy" => BothBuy)
    /\ (ExactlyOneBuy => cResult = VolatileCaution)

\* C10 (amended): volatile regime, no position: Buy only when both signals are
\* Buy or the RSI signal is a Buy with an EXTREME reason; exactly one Buy with
\* an RSI reason that is not EXTREME gives Wait, VOLATILE_MARKET_CAUTION.
C10_VolatileBuyNeedsBothUnlessExtreme ==
  CombinedVolatileFlat =>
    /\ (cResult.action = "buy" => (BothBuy \/ cArgs.rsiSignal = RsiBuyExtremeOversold))
    /\ ((ExactlyOneBuy /\ ~RsiReasonIsExtreme) => cResult = VolatileCaution)

C10_Witness ==
  /\ CombinedVolatileFlat
  /\ cArgs.rsiSignal = RsiBuyCrossingOversold
  /\ cArgs.macdSignal = MacdNeutral
  /\ cResult = VolatileCaution

(***************************************************************************)
(* Properties of the position ledger (checked under Spec)                  *)
(***************************************************************************)

\* C1: whatever decisions, monitoring ticks and order outcomes occur, the
\* ledger never holds two positions for the same symbol.
C1_OnePositionPerSymbol ==
  \A i, j \in 1..Len(positions) :
    positions[i].value.symbol = positions[j].value.symbol => i = j

\* Both symbols are held, and an exit decision and a monitoring tick each
\* have a close order in flight.
C1_Witness ==
  /\ Len(positions) = 2
  /\ loop.pc = "closing"
  /\ \E t \in Ticks : ticks[t].pc = "closing"

\* Steps in which the order call of a closePosition call settles.
ExitCloseSettles ==
  loop.pc = "closing" /\ loop'.returned.of = "closePosition"
StopCloseSettles(t) ==
  ticks[t].pc = "closing" /\ ticks'[t].pc = "scan"
ForcedCloseSettles ==
  shutdown.pc = "closing" /\ shutdown' # shutdown

\* C2: when the close-order call of closePosition fails, the ledger is as it
\* was (the position, if still there, with the same entryPrice, volume and
\* timestamp) and closePosition returns false.
C2_FailedCloseLeavesPosition ==
  [][ /\ (ExitCloseSettles /\ loop'.returned.response = "throws") =>
            (positions' = positions /\ loop'.returned.value = "false")
      /\ \A t \in Ticks :
            (StopCloseSettles(t) /\ ticks'[t].returned.response = "throws") =>
              (positions' = positions /\ ticks'[t].returned.value = "false")
      /\ (ForcedCloseSettles /\ shutdown'.returned.response = "throws") =>
            (positions' = positions /\ shutdown'.returned.value = "false")
    ]_vars

C2_Witness ==
  /\ loop.pc = "idle"
  /\ loop.returned = [of |-> "closePosition", value |-> "false", response |-> "throws"]
  /\ Len(positions) = 1
  /\ trades.totalTrades = 0

\* C3 (as claimed): a position leaves the ledger only in a step in which a
\* close-order call returned a confirmation (a txid); a response without one
\* leaves the ledger as it was.
C3_RemovedOnlyAfterConfirmation ==
  [][ /\ (ExitCloseSettles /\ loop'.returned.response # "txid") => positions' = positions
      /\ \A t \in Ticks :
            (StopCloseSettles(t) /\ ticks'[t].returned.response # "txid") =>
              positions' = positions
      /\ (ForcedCloseSettles /\ shutdown'.returned.response # "txid") =>
            positions' = positions
      /\ Len(positions') < Len(positions) =>
            \/ ExitCloseSettles
            \/ \E t \in Ticks : StopCloseSettles(t)
            \/ ForcedCloseSettles
    ]_vars

\* C4: executeTrade files a position only when its order call returned a
\* txid; when the call throws or returns no confirmation the ledger is as it
\* was, executeTrade does not return true, and no second order is sent: the
\* decision cycle is over.
C4_PositionOnlyOnConfirmation ==
  [][ /\ (loop.pc = "order" /\ loop'.returned.of = "executeTrade") =>
            /\ loop'.pc = "idle"
            /\ IF loop'.returned.response = "txid"
                 THEN /\ Len(positions') = Len(positions) + 1
                      /\ MapGet(positions', loop.trade.symbol) # Null
                      /\ MapGet(positions', loop.trade.symbol).entryPrice = loop.trade.price
                      /\ loop'.returned.value = "true"
                 ELSE /\ positions' = positions
                      /\ loop'.returned.value # "true"
      /\ Len(positions') > Len(positions) =>
            (loop.pc = "order" /\ loop'.returned.response = "txid")
    ]_vars

C4_Witness ==
  /\ loop.pc = "idle"
  /\ loop.returned = [of |-> "executeTrade", value |-> "false", response |-> "no_txid"]
  /\ positions = <<>>

(***************************************************************************)
(* Properties of checkOpenPositions (checked under Spec)                   *)
(***************************************************************************)

\* The position a monitoring tick has just checked at a price.
Checked(t) == ticks[t].cur # Null /\ ticks[t].cur.currentPrice > 0

ClosesWith(t, reason) ==
  /\ ticks[t].pc = "closing"
  /\ ticks[t].close.position = ticks[t].cur.position
  /\ ticks[t].close.reason[1] = reason

\* C8 (as claimed): a tick that checks a long, non-leveraged position at a
\* price whose move (current - entry) / entry * 100 is at or below minus the
\* stop-loss threshold (2 %) calls closePosition for it with reason
\* STOP_LOSS.
C8_StopLossInclusive ==
  \A t \in Ticks :
    LET c == ticks[t].cur
    IN  ( /\ Checked(t)
          /\ c.position.side = "buy"
          /\ ~c.position.leveraged
          /\ (c.currentPrice - c.position.entryPrice) * 1000
               <= -(STOP_LOSS_PERCENT * c.position.entryPrice) )
        => ClosesWith(t, "STOP_LOSS")

\* C9: the move compared with the thresholds is the raw move times the
\* position's leverage: a tick that checks a leveraged long position whose
\* raw move times its leverage is above the leveraged take-profit threshold
\* (0.5 %) calls closePosition with reason TAKE_PROFIT, as for leverage 2
\* and a raw move of +0.3 %; below minus the leveraged stop-loss threshold
\* (1 %) it calls it with STOP_LOSS; strictly between the two it does not
\* close.
C9_LeverageScalesMove ==
  \A t \in Ticks :
    LET c == ticks[t].cur
    IN  (Checked(t) /\ c.position.side = "buy" /\ c.position.leveraged) =>
          LET scaled == (c.currentPrice - c.position.entryPrice) * c.position.leverage * 1000
              takeProfit == LEVERAGED_TAKE_PROFIT_PERCENT * c.position.entryPrice
              stopLoss == LEVERAGED_STOP_LOSS_PERCENT * c.position.entryPrice
          IN  /\ scaled > takeProfit => ClosesWith(t, "TAKE_PROFIT")
              /\ scaled < -stopLoss => ClosesWith(t, "STOP_LOSS")
              /\ (scaled < takeProfit /\ scaled > -stopLoss) => ticks[t].pc = "scan"

C9_Witness ==
  \E t \in Ticks :
    /\ Checked(t)
    /\ ticks[t].cur.position.side = "buy"
    /\ ticks[t].cur.position.leveraged
    /\ ticks[t].cur.position.leverage = 2
    /\ ticks[t].cur.position.entryPrice = 1000
    /\ ticks[t].cur.currentPrice = 1003
    /\ ClosesWith(t, "TAKE_PROFIT")

(***************************************************************************)
(* Properties of riskManager (checked under SpecRisk)                      *)
(***************************************************************************)

\* C11 (as claimed): once canOpenPosition has refused on a day because of
\* the daily loss, every later call on that day returns false, whatever
\* trades were recorded in between; it can return true again only on a
\* later day.
C11_RefusesForRestOfDay ==
  (gate.calls > 0 /\ gate.day \in gate.refusedOn) => gate.value = "false"

(***************************************************************************)
(* Properties of the trading loop and the risk gate (checked under Spec)   *)
(***************************************************************************)

\* scalpPair goes from its decision to executeTrade's first exchange call.
OpeningStarts == loop.pc = "idle" /\ loop'.pc = "balance"

\* riskManager.canOpenPosition would refuse now because of the day's loss.
GateRefuses ==
  \E balance \in Balances :
    canOpenPosition(checkDailyReset(risk, today), balance, Len(positions))[2] = "daily_loss"

\* C12 (as claimed): no open order is started while the risk gate refuses
\* new positions because of the day's cumulative loss.
C12_OpensOnlyWhenGateAllows == [][OpeningStarts => ~GateRefuses]_vars

\* C13: the ledger never holds more than MAX_POSITIONS (3) positions.
C13_AtMostMaxPositions == Len(positions) <= MAX_POSITIONS

\* Three positions are held and a buy or sell decision for a fourth symbol
\* was skipped.
C13_Witness ==
  /\ Len(positions) = MAX_POSITIONS
  /\ loop.returned = Skipped("max_positions")

(***************************************************************************)
(* Properties of the shutdown handler (checked under Spec)                 *)
(***************************************************************************)

\* C14 (as claimed): when the process exits after SIGINT, every position in
\* the ledger is one closeAllPositions has attempted to close since the
\* signal: its symbol is among those the handler went through.
C14_EveryPositionAttemptedAtExit ==
  exited => \A i \in 1..Len(positions) : SeqHas(shutdown.symbols, positions[i].key)

(***************************************************************************)
(* Properties of concurrent closes (checked under Spec)                    *)
(***************************************************************************)

\* C15 (as claimed): each opened position is recorded as closed at most
\* once: the trades recorded never outnumber the positions opened.
C15_OneCloseRecordPerPosition == trades.totalTrades <= clock

\* The closePosition calls whose close order is in flight.
ClosesInFlight ==
  { [by |-> "scalpPair", call |-> loop.close] : x \in {n \in {1} : loop.pc = "closing"} }
    \cup { [by |-> "checkOpenPositions", call |-> ticks[t].close] :
              t \in {u \in Ticks : ticks[u].pc = "closing"} }
    \cup { [by |-> "closeAllPositions", call |-> shutdown.close] :
              x \in {n \in {1} : shutdown.pc = "closing"} }

\* C16 (as claimed): two close orders for the same symbol are never in
\* flight at once.
C16_ClosesSerializedPerSymbol ==
  \A a, b \in ClosesInFlight : a.call.symbol = b.call.symbol => a = b

(***************************************************************************)
(* Properties of the close retry (checked under SpecMonitor)               *)
(***************************************************************************)

\* A monitoring tick's close order for the position on `symbol` has failed
\* and the position is in the ledger.
FailedStopOn(symbol) ==
  \E t \in Ticks :
    /\ ticks[t].returned = [of |-> "closePosition", value |-> "false", response |-> "throws"]
    /\ MapHas(positions, symbol)
    /\ MapGet(positions, symbol).timestamp = ticks[t].after

\* A monitoring tick has a close order for `symbol` in flight.
StopInFlightOn(symbol) ==
  \E t \in Ticks : ticks[t].pc = "closing" /\ ticks[t].close.symbol = symbol

\* C17: after a monitoring tick's close order for a position has failed the
\* position is still in the ledger, and while its price stays beyond a
\* threshold a later tick sends a close order for it again; when close
\* orders are eventually confirmed the position leaves the ledger.
C17_FailedCloseRetried ==
  \A symbol \in Symbols :
    /\ FailedStopOn(symbol) ~> (StopInFlightOn(symbol) \/ ~MapHas(positions, symbol))
    /\ FailedStopOn(symbol) ~> ~MapHas(positions, symbol)

C17_Witness ==
  \E symbol \in Symbols : FailedStopOn(symbol) /\ loop.pc = "idle"

(***************************************************************************)
(* Properties of the trading loop's error handling (checked under Spec)    *)
(***************************************************************************)

\* A scalpPair call ends in a failure: the market data could not be fetched,
\* executeTrade returned false or raised, or closePosition returned false.
PairFails ==
  /\ loop'.returned # loop.returned \/ loop.pc # "idle"
  /\ \/ loop'.returned = Skipped("no_market_data")
     \/ loop'.returned.of = "executeTrade" /\ loop'.returned.value \in {"false", "raised"}
     \/ loop'.returned.of = "scalpPair" /\ loop'.returned.value = "raised"
     \/ loop'.returned.of = "closePosition" /\ loop'.returned.value = "false"

\* C18: a failed open order, a failed close attempt or a failed market-data
\* fetch for one pair does not end the trading loop or the process: the
\* loop is ready for the next pair.
C18_FailureKeepsLoopRunning ==
  [][PairFails => (loop'.pc = "idle" /\ exited' = exited /\ shutdown' = shutdown)]_vars

\* executeTrade has raised out of its catch block (the order was rejected
\* for insufficient funds) and the loop is ready for the next pair.
C18_Witness ==
  /\ loop.pc = "idle"
  /\ loop.returned = [of |-> "executeTrade", value |-> "raised", response |-> "throws"]
  /\ ~exited

(***************************************************************************)
(* Properties of the signal generators (checked under SpecSignals)         *)
(***************************************************************************)

\* C19: called with an open position, RSIStrategy.getSignal and
\* MACDStrategy.getSignal return exit or wait, never buy or sell, whatever
\* the indicator input.
C19_NoEntryWhileHeld ==
  (sResult # Null /\ sResult # NoSignal /\ sArgs.position # Null)
    => sResult.action \in {"exit", "wait"}

\* With a long position, thresholds set and the latest RSI at 80, the RSI
\* generator has returned exit.
C19_Witness ==
  /\ sResult = RsiExitStrongOverbought
  /\ sArgs.generator = "rsi"
  /\ sArgs.position = [side |-> "buy"]
  /\ sArgs.rsiValues = Array(<<5000, 8000>>)

\* C20 (as claimed): with no position, getSignal applied to the series
\* calculateRSI produced returns buy when the latest RSI is below the
\* extreme-oversold threshold (25) and sell when it is above the
\* extreme-overbought threshold (75).
C20_EntryFromCalculatedRsi ==
  ( /\ sResult # Null /\ sResult # NoSignal
    /\ sArgs.generator = "rsi" /\ sArgs.source = "calculateRSI"
    /\ sArgs.position = Null )
    => LET values == RsiValuesOf(sArgs).values
           latest == values[Len(values)]
       IN  /\ latest < RSI_OVERSOLD_EXTREME * RsiScale => sResult.action = "buy"
           /\ latest > RSI_EXTREME_OVERBOUGHT * RsiScale => sResult.action = "sell"

\* The closes calculateRSI averages over: the last rsiPeriod changes.
C21_Rises ==
  LET n == Len(sArgs.marketData)
      period == sArgs.strategy.adjustments.rsiPeriod
  IN  \E i \in 1..(n - 1) :
        i > n - 1 - period /\ sArgs.marketData[i + 1].close > sArgs.marketData[i].close

C21_Falls ==
  LET n == Len(sArgs.marketData)
      period == sArgs.strategy.adjustments.rsiPeriod
  IN  \E i \in 1..(n - 1) :
        i > n - 1 - period /\ sArgs.marketData[i + 1].close < sArgs.marketData[i].close

C21_Calculated == sRsi # Null /\ sArgs.source = "calculateRSI"

\* C21 (amended): when validatePrices accepts the series, calculateRSI
\* returns 50 if the average gain and the average loss are both zero, 70
\* if the average loss is zero and the average gain positive, 30 if the
\* average gain is zero and the average loss positive; when validatePrices
\* rejects the series it returns null.
C21_SaturatesWhenValid ==
  C21_Calculated =>
    IF validatePrices(sArgs.strategy, sArgs.marketData)
    THEN /\ ~sRsi.isNull
         /\ (~C21_Rises /\ ~C21_Falls) => sRsi.values = <<50 * RsiScale>>
         /\ (C21_Rises /\ ~C21_Falls) => sRsi.values = <<70 * RsiScale>>
         /\ (~C21_Rises /\ C21_Falls) => sRsi.values = <<30 * RsiScale>>
    ELSE sRsi.isNull

\* Normal-activity adjustments, five traded candles that only rise over
\* three different closes: the RSI is 70.
C21_Witness ==
  /\ C21_Calculated
  /\ sArgs.strategy.adjustments.minTrades = 3
  /\ Len(sArgs.marketData) = 5
  /\ C21_Rises /\ ~C21_Falls
  /\ sRsi = Array(<<70 * RsiScale>>)

\* C21 (as claimed): for every series of at least two traded candles
\* whose average gain and average loss are both zero the RSI is 50.
C21_SaturatesOnEverySeries ==
  ( /\ C21_Calculated
    /\ Len(sArgs.marketData) >= 2
    /\ \A i \in 1..Len(sArgs.marketData) : sArgs.marketData[i].trades > 0
    /\ ~C21_Rises /\ ~C21_Falls )
    => sRsi = Array(<<50 * RsiScale>>)

(***************************************************************************)
(* Properties of calculatePositionSize (checked under SpecSizing)          *)
(***************************************************************************)

\* The application has positive finite arguments.
C22_PositiveArgs ==
  /\ zResult # Null
  /\ \A x \in {zArgs.accountBalance, zArgs.price, zArgs.stopLossPercent} :
        x.kind = "finite" /\ x.value > 0

C22_SizeOf(accountBalance, volatility) ==
  calculatePositionSize(accountBalance, zArgs.price, zArgs.stopLossPercent, volatility)

\* A volatility band lies above another: below 0.5, 0.5 to 2.0, above 2.0.
C22_Band(volatility) == IF volatility < 5 THEN 0 ELSE IF volatility <= 20 THEN 1 ELSE 2

C22_Monotone ==
  /\ zResult.kind = "finite"
  /\ \A b \in SizingBalances :
        (b.kind = "finite" /\ b.value > zArgs.accountBalance.value)
          => ( /\ C22_SizeOf(b, zArgs.volatility).kind = "finite"
               /\ C22_SizeOf(b, zArgs.volatility).value > zResult.value )
  /\ \A v \in Volatilities :
        C22_Band(v) > C22_Band(zArgs.volatility)
          => C22_SizeOf(zArgs.accountBalance, v).value < zResult.value

\* C22 (amended): for positive finite arguments whose stop-loss amount,
\* price x stopLossPercent / 100, is at least 0.0000001, the size strictly
\* increases with accountBalance and strictly decreases from the band of
\* volatility below 0.5 to the band 0.5..2.0 to the band above 2.0.
C22_MonotoneAboveMinStop ==
  (C22_PositiveArgs /\ zArgs.price.value * zArgs.stopLossPercent.value >= MinStopLossAmount)
    => C22_Monotone

C22_Witness ==
  /\ C22_PositiveArgs
  /\ zArgs.accountBalance = Finite(100) /\ zArgs.price = Finite(10000)
  /\ zArgs.stopLossPercent = Finite(20) /\ zArgs.volatility = 2
  /\ zResult = Finite(750)

\* C22 (as claimed): for every positive price and stop-loss percent the
\* size strictly increases with accountBalance and strictly decreases
\* across the volatility bands.
C22_MonotoneEverywhere == C22_PositiveArgs => C22_Monotone

\* C29: calculatePositionSize returns 0 when accountBalance, price or
\* stopLossPercent is NaN, infinite or not positive, and never returns a
\* negative or infinite size.
C29_FailsClosed ==
  zResult # Null =>
    /\ zResult.kind = "finite" /\ zResult.value >= 0
    /\ (\E x \in {zArgs.accountBalance, zArgs.price, zArgs.stopLossPercent} :
          x.kind # "finite" \/ x.value <= 0) => zResult = Finite(0)

(***************************************************************************)
(* Properties of the trading cycle (checked under Spec)                    *)
(***************************************************************************)

\* C23: scalpPair sends an open order only for a symbol that has no
\* position in the ledger and a close order only for a symbol that has one,
\* and a confirmed open adds a position, it never replaces one.
C23_OrdersMatchLedger ==
  [][ /\ (loop.pc = "balance" /\ loop'.pc = "order")
            => MapGet(positions, loop'.trade.symbol) = Null
      /\ (loop.pc = "idle" /\ loop'.pc = "closing")
            => /\ MapGet(positions, loop'.close.symbol) # Null
               /\ loop'.close.position = MapGet(positions, loop'.close.symbol)
      /\ (loop.pc = "order" /\ loop'.returned.value = "true")
            => /\ MapGet(positions, loop.trade.symbol) = Null
               /\ Len(positions') = Len(positions) + 1
    ]_vars

\* An open order is in flight for a symbol without a position while the
\* other symbol is held.
C23_Witness ==
  /\ loop.pc = "order"
  /\ Len(positions) = 1
  /\ MapGet(positions, loop.trade.symbol) = Null

(***************************************************************************)
(* Properties of closePosition (checked under SpecPrices)                  *)
(***************************************************************************)

\* C24: the close order of closePosition is on the side opposite to the
\* order that opened the position: sell for a position opened by a buy, buy
\* for one opened by a sell.
C24_CloseSideOpposite ==
  loop.pc = "closing" =>
    loop.close.closeSide = (IF loop.close.position.side = "buy" THEN "sell" ELSE "buy")

\* C25: the profit closePosition computes uses the move current - entry for
\* a position opened by a buy and entry - current for one opened by a sell,
\* so that a long position closed above its entry has a positive profit.
C25_DirectionalProfit ==
  loop.pc = "closing" =>
    LET call == loop.close
        position == call.position
    IN  /\ call.profit =
             ProfitAmount(position.volume, call.currentPrice,
                          Move(position.side = "buy", position.entryPrice, call.currentPrice),
                          position.entryPrice)
        /\ (position.side = "buy" /\ call.currentPrice > position.entryPrice)
              => call.profit > 0

\* The day's accumulator of a currency, 0 before the day has an entry.
C26_DailyPnL(r, currency) ==
  IF r.dailyPnL[today] = Null THEN 0 ELSE r.dailyPnL[today][currency]

\* C26: when a close is confirmed its profit is added to the day's
\* accumulator of the position's settlement currency and the accumulator
\* of the other currency keeps its value.
C26_ProfitInSettlementCurrency ==
  [][ (ExitCloseSettles /\ loop'.returned.value = "true") =>
        LET currency == loop.close.currency
            other == IF currency = "GBP" THEN "USD" ELSE "GBP"
        IN  /\ C26_DailyPnL(risk', currency) = C26_DailyPnL(risk, currency) + loop.close.profit
            /\ C26_DailyPnL(risk', other) = C26_DailyPnL(risk, other)
    ]_vars

(***************************************************************************)
(* Properties of the RiskManager (checked under SpecRisk)                  *)
(***************************************************************************)

\* C27: the first call after the day has changed resets the daily state:
\* the new day's P&L is zero in both currencies and tradingEnabled is true.
C27_ResetOnRollover ==
  [][ (gate'.calls = gate.calls + 1 /\ risk.lastResetDay # today)
        => /\ risk'.lastResetDay = today
           /\ risk'.dailyPnL[today] = ZeroPnL
           /\ risk'.tradingEnabled = "true"
    ]_vars

\* C28: canOpenPosition returns true or false in every state of the
\* RiskManager, the one before any profit was recorded included; it never
\* raises.
C28_AlwaysAnswers == gate.calls > 0 => gate.value \in {"true", "false"}

(***************************************************************************)
(* Thresholds of the position monitor (checked under Spec)                 *)
(***************************************************************************)

\* C30: a tick checks a leveraged position against the leveraged stop-loss
\* and take-profit thresholds (1 % and 0.5 %) and a position without
\* leverage against the spot thresholds (2 % and 1 %), the former being the
\* tighter: beyond the position's threshold closePosition is called, and
\* strictly inside both it is not.
C30_ThresholdsByLeverage ==
  \A t \in Ticks :
    Checked(t) =>
      LET c == ticks[t].cur
          p == c.position
          scaled == Move(p.side = "buy", p.entryPrice, c.currentPrice) * p.leverage * 1000
          stopLoss == IF p.leveraged THEN LEVERAGED_STOP_LOSS_PERCENT ELSE STOP_LOSS_PERCENT
          takeProfit == IF p.leveraged THEN LEVERAGED_TAKE_PROFIT_PERCENT
                                       ELSE TAKE_PROFIT_PERCENT
      IN  /\ constants.LEVERAGED_STOP_LOSS_PERCENT.value < constants.STOP_LOSS_PERCENT.value
          /\ constants.LEVERAGED_TAKE_PROFIT_PERCENT.value < constants.TAKE_PROFIT_PERCENT.value
          /\ scaled > takeProfit * p.entryPrice => ClosesWith(t, "TAKE_PROFIT")
          /\ scaled < -(stopLoss * p.entryPrice) => ClosesWith(t, "STOP_LOSS")
          /\ (scaled < takeProfit * p.entryPrice /\ scaled > -(stopLoss * p.entryPrice))
                => ticks[t].pc = "scan"

\* A long position with leverage 2 checked at 98.0: the scaled move of -4 %
\* is below -1 % and the close is called with STOP_LOSS, where the spot
\* threshold of 2 % would not have been passed by the raw move of -2 %.
C30_Witness ==
  \E t \in Ticks :
    /\ Checked(t)
    /\ ticks[t].cur.position.leveraged
    /\ ticks[t].cur.position.side = "buy"
    /\ ticks[t].cur.position.entryPrice = 1000
    /\ ticks[t].cur.currentPrice = 980
    /\ ClosesWith(t, "STOP_LOSS")

(***************************************************************************)
(* The priority table of combineSignals (checked under SpecCombine)        *)
(***************************************************************************)

\* C31: combineSignals returns the decision of the first applicable rule:
\* (1) with a position, the exit of the RSI generator, else that of the
\* MACD generator, else wait HOLDING_POSITION; (2) the action both
\* generators agree on when it is not wait; (3) the RSI signal when its
\* reason is an EXTREME one; (4) wait, VOLATILE_MARKET_CAUTION, in a
\* volatile market with a buy from one generator only; (5) in a trending
\* market a buy from either generator with a rising trend, a sell from
\* either with a falling one; (6) wait NO_STRONG_SIGNAL.
C31_FirstApplicableRule ==
  cResult # Null =>
    LET r == cArgs.rsiSignal
        m == cArgs.macdSignal
        c == cArgs.marketConditions
        some(action) == r.action = action \/ m.action = action
    IN  IF cArgs.position # Null
          THEN cResult = (IF r.action = "exit" THEN r
                          ELSE IF m.action = "exit" THEN m
                          ELSE Signal("wait", <<"HOLDING", "POSITION">>))
        ELSE IF r.action = m.action /\ r.action # "wait"
          THEN cResult.action = r.action
        ELSE IF Includes(r.reason, <<"EXTREME">>)
          THEN cResult = r
        ELSE IF c.marketCondition = "volatile" /\ some("buy")
          THEN cResult = VolatileCaution
        ELSE IF c.marketCondition = "trending" /\ c.priceTrend > 0 /\ some("buy")
          THEN cResult.action = "buy"
        ELSE IF c.marketCondition = "trending" /\ c.priceTrend < 0 /\ some("sell")
          THEN cResult.action = "sell"
        ELSE cResult = Signal("wait", <<"NO", "STRONG", "SIGNAL">>)

\* A trending market that rises, no position, a buy from the MACD generator
\* alone: the decision is buy.
C31_Witness ==
  /\ cResult # Null
  /\ cArgs.position = Null
  /\ cArgs.marketConditions = MarketConditions("trending", 1)
  /\ cArgs.rsiSignal = RsiNeutral
  /\ cArgs.macdSignal = MacdBuyBelowZero
  /\ cResult.action = "buy"

(***************************************************************************)
(* The pass of checkOpenPositions (checked under SpecMonitor)              *)
(***************************************************************************)

\* C32: when a pass of checkOpenPositions that has its prices ends, every
\* position of the ledger whose symbol the pass began with has been looked
\* at in it, whether or not the price of another symbol was missing or the
\* close of another position failed.
C32_EveryPositionChecked ==
  [][ \A t \in Ticks :
        (ticks[t].pc \in {"scan", "closing"} /\ ticks'[t].pc = "idle")
          => \A i \in 1..Len(positions') :
               SeqHas(ticks[t].symbols, positions'[i].key)
                 => MapHas(ticks[t].prices, positions'[i].key)
    ]_vars

\* The close of the first position has failed, and the pass has gone on to
\* check the second position at a price.
C32_Witness ==
  \E t \in Ticks :
    /\ ticks[t].returned.of = "closePosition"
    /\ ticks[t].returned.value = "false"
    /\ Checked(t)
    /\ Len(ticks[t].prices) = 2
    /\ Len(positions) = 2

(***************************************************************************)
(* Termination on a top-level fault (checked under SpecFaults)             *)
(***************************************************************************)

\* C33: when the process has ended on a top-level fault, closeAllPositions
\* was entered before the exit.
C33_FaultClosesPositions ==
  (exited /\ fault # "none") => shutdown.pc # "idle"

(***************************************************************************)
(* Decisions without market data (checked under SpecIndicators)            *)
(***************************************************************************)

\* The ways a decision ends before a signal is computed.
MissingData == { Skipped(why) : why \in {"no_market_data", "no_rsi", "no_macd"} }

\* C34: a decision that finds the candle series empty, or gets no RSI or no
\* MACD from it, ends with the loop ready for the next pair: no order is
\* in flight, nothing was raised, and the ledger, the trade records, the
\* risk state and the process are as they were.
C34_MissingDataWaits ==
  [][ (loop.pc = "idle" /\ loop' # loop /\ loop'.returned \in MissingData)
        => /\ loop' = LoopIdle(loop'.returned)
           /\ UNCHANGED <<positions, trades, risk, exited, shutdown>>
    ]_vars

\* A decision has ended for want of a MACD while a position is held.
C34_Witness ==
  /\ loop = LoopIdle(Skipped("no_macd"))
  /\ Len(positions) = 1

(***************************************************************************)
(* Rejected open orders (checked under SpecPrices)                         *)
(***************************************************************************)

\* C35: an executeTrade whose order call threw has returned false, it has
\* not raised, and no position was recorded by it.
C35_RejectedOpenReturnsFalse ==
  (loop.returned.of = "executeTrade" /\ loop.returned.response = "throws")
    => loop.returned.value = "false"

(***************************************************************************)
(* Volume of the open order (checked under SpecPrices)                     *)
(***************************************************************************)

\* num / den has digits past the eighth decimal, and volume (in 1e-8
\* units) is num / den cut off there: the volume is below num / den.
BelowRequested(num, den, volume) ==
  LET a  == num * 10000
      b  == (a % den) * 10000
  IN  /\ volume = (a \div den) * 10000 + (b \div den)
      /\ b % den # 0

\* C36: the volume of an open order in flight is not below the volume
\* requested, trade amount / price.
C36_VolumeNotRoundedDown ==
  loop.pc = "order" =>
    \A response \in BalanceResponses :
      LET t == loop.trade
          base == IF CurrencyOf(t.symbol) = "GBP"
                    THEN constants.TRADE_AMOUNT_USD.value
                    ELSE constants.TRADE_AMOUNT_USD_USD.value
      IN  response.kind = "result"
            => ~BelowRequested(TradeAmount(base, response.balance, t.reducePositionSize),
                               t.price * 10, t.volume)

(***************************************************************************)
(* Positions in the ledger (checked under SpecPrices)                      *)
(***************************************************************************)

\* C37: every position in the ledger has a positive entry price, a
\* positive volume and a leverage of at least 1, which is 1 when the
\* position is not leveraged.
C37_PositionWellFormed ==
  \A i \in 1..Len(positions) :
    LET position == positions[i].value
    IN  /\ position.entryPrice > 0
        /\ position.volume > 0
        /\ position.leverage >= 1
        /\ ~position.leveraged => position.leverage = 1

(***************************************************************************)
(* The open order and apiWithRetry (checked under SpecPrices)              *)
(***************************************************************************)

\* C38: an open is reported failed because its order call threw only after
\* apiWithRetry has made its attempts and given up with that error.
C38_OpenOrderRetried ==
  (loop.returned.of = "executeTrade" /\ loop.returned.response = "throws")
    => (rpc = "thrown" /\ Len(CallEvents) = MAX_RETRIES)

(***************************************************************************)
(* Closes in flight and the ledger (checked under Spec)                    *)
(***************************************************************************)

\* The closePosition calls whose order settles in this step.
SettlingCloses ==
  (IF loop.pc = "closing" /\ loop'.pc = "idle" /\ loop'.returned.of = "closePosition"
     THEN {loop.close} ELSE {})
  \cup { ticks[t].close : t \in { u \in Ticks : ticks[u].pc = "closing" /\ ticks'[u].pc = "scan" } }
  \cup (IF shutdown.pc = "closing" /\ shutdown' # shutdown THEN {shutdown.close} ELSE {})

\* C39: a position that leaves the ledger in a step is the position for
\* which a close settling in that step was issued.
C39_CloseRemovesItsPosition ==
  [][ \A i \in 1..Len(positions) :
        ~MapHas(positions', positions[i].key)
          => \E call \in SettlingCloses :
               /\ call.symbol = positions[i].key
               /\ call.position = positions[i].value
    ]_vars

(***************************************************************************)
(* Forced exits (checked under Spec)                                       *)
(***************************************************************************)

\* The day's P&L that updateDailyPnL starts from.
DailyPnLBefore ==
  LET r == checkDailyReset(risk, today)
      d == r.lastResetDay
  IN  IF r.dailyPnL[d] = Null THEN ZeroPnL ELSE r.dailyPnL[d]

\* C40: the close order of a forced exit carries the position's own entry
\* price as exit price and a profit of 0; when it settles and the trade is
\* recorded, it is recorded as break-even and the day's P&L does not move.
C40_ForcedExitBreaksEven ==
  [][ (shutdown.pc = "closing" /\ shutdown' # shutdown)
        => /\ shutdown.close.currentPrice = shutdown.close.position.entryPrice
           /\ shutdown.close.profit = 0
           /\ trades' # trades
                => /\ trades'.breakEvenTrades = trades.breakEvenTrades + 1
                   /\ trades'.winningTrades = trades.winningTrades
                   /\ trades'.losingTrades = trades.losingTrades
                   /\ risk'.dailyPnL[risk'.lastResetDay] = DailyPnLBefore
    ]_vars

\* A forced exit has closed a position and the trade is on record.
C40_Witness ==
  /\ shutdown.returned.of = "closePosition"
  /\ shutdown.returned.value = "true"
  /\ trades.breakEvenTrades >= 1

====
